---- MODULE Spec2Model ----
(***************************************************************************)
(* Timetable scraping core of gradia-backend: the Selenium driver pool     *)
(* (utils/chromium_everytime.py), the two retrying parsers                 *)
(* (utils/chromium_everytime.py, utils/sync_playwright_everytime.py), the  *)
(* shared extraction helpers (utils/everytime_base.py) and the admission   *)
(* semaphore of the route (route/timetable.py).                            *)
(*                                                                         *)
(* Three views of the same code are checked:                               *)
(*   SpecPool, SpecPoolSd  threads calling WebDriverPool.get_driver,       *)
(*                         release_driver (and shutdown), statement by     *)
(*                         statement, lock included;                       *)
(*   SpecReq               one request followed through get_timetable and  *)
(*                         parse_timetable, with other admitted requests   *)
(*                         loading the pool;                               *)
(*   SpecGate, FairSpecGate  many requests at the semaphore, counted by    *)
(*                         the place they are at.                          *)
(***************************************************************************)
EXTENDS Integers, Sequences, FiniteSets, TLC

(***************************************************************************)
(* Bounds of the model.                                                    *)
(***************************************************************************)
NumThreads == 3
MaxCap == 2
MaxCreated == 3
NumOthers == 5
NumGateReq == 11
NumReuseThreads == 2
MaxOrphans == 1
MaxCols == 6

(***************************************************************************)
(* Program constants.                                                      *)
(***************************************************************************)
POOL_MAX_DRIVERS == 5
MAX_CONCURRENT_JOBS == 10
DEFAULT_MAX_RETRIES == 2
PART == 60
EVERYTIME_PART == 50
CHROMIUM_WORKERS == 10
PLAYWRIGHT_WORKERS == 10

VARIABLES
    \* WebDriverPool (utils/chromium_everytime.py)
    max_drivers,      \* self.max_drivers
    pool_module,      \* the module whose WebDriverPool this is
    active_drivers,   \* self.active_drivers
    shutdown_flag,    \* self._shutdown
    lock,             \* self.lock: 0 when free, else the thread holding it
    created,          \* number of browsers webdriver.Chrome has started so far
    quit,             \* drivers on which driver.quit() has succeeded
    leased,           \* drivers returned by get_driver, not yet passed to release_driver
    released,         \* drivers that have been passed to release_driver
    available_drivers, \* self.available_drivers, the queue of idle drivers
    \* threads calling the pool
    tpc,              \* statement each thread is at
    tdrv,             \* the thread's local variable driver (0: None)
    ttmp,             \* value of active_drivers read by the thread's += / -= statement
    tres,             \* how the thread's last get_driver call ended
    spc,              \* statement the shutdown() caller is at
    sd_leased,        \* the drivers that were leased when shutdown() was last called
    \* process-wide state of the route (route/timetable.py)
    platform,         \* platform.system(), fixed for the process
    sem,              \* processing_semaphore: free slots
    \* the request that is followed statement by statement
    req,              \* its handler and worker: position and local variables
    hist,             \* what it has done so far (bookkeeping of the checks)
    \* other requests, admitted through the same semaphore
    o_inside,         \* those inside the semaphore holding no driver
    o_holding,        \* those inside the semaphore holding a driver
    \* many requests at the semaphore, counted by place
    g_wait,           \* in get_timetable, before the semaphore
    g_loop,           \* admitted, at the top of the retry loop, by retries
    g_hold,           \* admitted, holding a driver or a browser, by retries
    g_fin,            \* job finished, still inside the semaphore
    g_done,           \* out of get_timetable
    g_full,           \* an admitted request has found the pool at capacity
    \* jobs still running on the thread pool after their handler has left
    g_oloop,          \* at the top of the retry loop, by retries
    g_ohold,          \* holding a driver or a browser, by retries
    \* one run of the extraction on a rendered document
    x_pc,             \* "idle", "doc": a document is at hand, "parsed", "timed"
    x_doc,            \* the document: its day columns
    x_out,            \* what _parse_html returned or raised
    x_time            \* what _extract_time_of_subject returned for the first block

poolVars == <<max_drivers, pool_module, active_drivers, shutdown_flag, lock, created, quit, leased,
              released, available_drivers>>
threadVars == <<tpc, tdrv, ttmp, tres, spc, sd_leased>>
routeVars == <<platform, sem>>
reqVars == <<req, hist>>
otherVars == <<o_inside, o_holding>>
orphanVars == <<g_oloop, g_ohold>>
extractVars == <<x_pc, x_doc, x_out, x_time>>
gateVars == <<g_wait, g_loop, g_hold, g_fin, g_done, g_full, orphanVars>>
vars == <<poolVars, threadVars, routeVars, extractVars, reqVars, otherVars, gateVars>>

Threads == 1..NumThreads

(***************************************************************************)
(* WebDriverPool.get_driver: the capacity test of line 48.                 *)
(***************************************************************************)
CapOkOffByOne(active, cap) == active <= cap

CapOk(active, cap) == active < cap

(***************************************************************************)
(* WebDriverPool.__init__: an empty pool of the given capacity.            *)
(***************************************************************************)
PoolInit(cap) ==
    /\ max_drivers = cap
    /\ pool_module = "chromium_everytime"
    /\ active_drivers = 0
    /\ shutdown_flag = FALSE
    /\ lock = 0
    /\ created = 0
    /\ quit = {}
    /\ leased = {}
    /\ released = {}
    /\ available_drivers = <<>>

ThreadsInit ==
    /\ tpc = [t \in Threads |-> "idle"]
    /\ tdrv = [t \in Threads |-> 0]
    /\ ttmp = [t \in Threads |-> 0]
    /\ tres = [t \in Threads |-> "none"]
    /\ spc = "idle"
    /\ sd_leased = {}

(***************************************************************************)
(* get_driver, statement by statement (lines 39-59).                       *)
(***************************************************************************)
\* line 41: with self.lock
GetDriverLock(t) ==
    /\ tpc[t] = "idle"
    /\ tdrv[t] = 0
    /\ lock = 0
    /\ lock' = t
    /\ tpc' = [tpc EXCEPT ![t] = "g_locked"]
    /\ UNCHANGED <<max_drivers, pool_module, available_drivers, active_drivers, shutdown_flag, created, quit, leased, released,
                   tdrv, ttmp, tres, spc, sd_leased>>

\* line 43-44: the pool is shut down: RuntimeError, the lock is released
GetDriverCheckShutdown(t) ==
    /\ tpc[t] = "g_locked"
    /\ IF shutdown_flag
       THEN /\ tpc' = [tpc EXCEPT ![t] = "idle"]
            /\ tres' = [tres EXCEPT ![t] = "RuntimeError"]
            /\ lock' = 0
       ELSE /\ tpc' = [tpc EXCEPT ![t] = "g_cap"]
            /\ UNCHANGED <<tres, lock>>
    /\ UNCHANGED <<max_drivers, pool_module, available_drivers, active_drivers, shutdown_flag, created, quit, leased, released,
                   tdrv, ttmp, spc, sd_leased>>

\* line 48 and 56-59: at capacity: HTTPException(503), the lock is released
GetDriverCheckCap(t) ==
    /\ tpc[t] = "g_cap"
    /\ IF CapOk(active_drivers, max_drivers)
       THEN /\ tpc' = [tpc EXCEPT ![t] = "g_create"]
            /\ UNCHANGED <<tres, lock>>
       ELSE /\ tpc' = [tpc EXCEPT ![t] = "idle"]
            /\ tres' = [tres EXCEPT ![t] = "HTTP503_capacity"]
            /\ lock' = 0
    /\ UNCHANGED <<max_drivers, pool_module, available_drivers, active_drivers, shutdown_flag, created, quit, leased, released,
                   tdrv, ttmp, spc, sd_leased>>

\* _create_driver (lines 72-88): webdriver.Chrome(...) starts a browser of
\* its own; the driver it returns is the created-th driver of the process
NewDriverRecycled(count) == IF count = 0 THEN 1 ELSE count

NewDriver(count) == count + 1

\* line 50: driver = self._create_driver() returns a new browser
GetDriverCreate(t) ==
    /\ tpc[t] = "g_create"
    /\ created < MaxCreated
    /\ created' = created + 1
    /\ tdrv' = [tdrv EXCEPT ![t] = NewDriver(created)]
    /\ tpc' = [tpc EXCEPT ![t] = "g_inc"]
    /\ UNCHANGED <<max_drivers, pool_module, available_drivers, active_drivers, shutdown_flag, lock, quit, leased, released,
                   ttmp, tres, spc, sd_leased>>

\* line 50, 53-55: _create_driver raises: HTTPException(503), the lock is
\* released.  Either no browser was started (lines 75-78 raised), or
\* webdriver.Chrome has started one and set_page_load_timeout or
\* set_window_size raised (lines 79-82): lines 85-87 print and raise again, and
\* the browser is in nobody's hands.
GetDriverCreateFails(t) ==
    /\ tpc[t] = "g_create"
    /\ \/ UNCHANGED created
       \/ /\ created < MaxCreated
          /\ created' = created + 1
    /\ tpc' = [tpc EXCEPT ![t] = "idle"]
    /\ tres' = [tres EXCEPT ![t] = "HTTP503_create"]
    /\ lock' = 0
    /\ UNCHANGED <<max_drivers, pool_module, available_drivers, active_drivers, shutdown_flag, quit, leased, released,
                   tdrv, ttmp, spc, sd_leased>>

\* line 51: self.active_drivers += 1, the read
GetDriverIncRead(t) ==
    /\ tpc[t] = "g_inc"
    /\ ttmp' = [ttmp EXCEPT ![t] = active_drivers]
    /\ tpc' = [tpc EXCEPT ![t] = "g_write"]
    /\ UNCHANGED <<poolVars, tdrv, tres, spc, sd_leased>>

\* line 51-52: the write of += 1, return driver, the lock is released
GetDriverIncWrite(t) ==
    /\ tpc[t] = "g_write"
    /\ active_drivers' = ttmp[t] + 1
    /\ leased' = leased \cup {tdrv[t]}
    /\ lock' = 0
    /\ tres' = [tres EXCEPT ![t] = "ok"]
    /\ tpc' = [tpc EXCEPT ![t] = "idle"]
    /\ ttmp' = [ttmp EXCEPT ![t] = 0]
    /\ UNCHANGED <<max_drivers, pool_module, available_drivers, shutdown_flag, created, quit, released,
                   tdrv, spc, sd_leased>>

(***************************************************************************)
(* _close_driver (lines 90-97): driver.quit(), an exception of which is    *)
(* printed and swallowed.                                                  *)
(***************************************************************************)
CloseDriver(d, quitOk) == IF quitOk /\ d # 0 THEN quit \cup {d} ELSE quit

(***************************************************************************)
(* release_driver, statement by statement (lines 61-70).                   *)
(***************************************************************************)
\* line 63-65: _shutdown is read without the lock; when set, close and return
ReleaseDriverCheckShutdown(t) ==
    /\ tpc[t] = "idle"
    /\ tdrv[t] # 0
    /\ leased' = leased \ {tdrv[t]}
    /\ released' = released \cup {tdrv[t]}
    /\ IF shutdown_flag
       THEN /\ \E quitOk \in BOOLEAN : quit' = CloseDriver(tdrv[t], quitOk)
            /\ tdrv' = [tdrv EXCEPT ![t] = 0]
            /\ UNCHANGED tpc
       ELSE /\ tpc' = [tpc EXCEPT ![t] = "r_wait"]
            /\ UNCHANGED <<quit, tdrv>>
    /\ UNCHANGED <<max_drivers, pool_module, available_drivers, active_drivers, shutdown_flag, lock, created,
                   ttmp, tres, spc, sd_leased>>

\* line 67: with self.lock
ReleaseDriverLock(t) ==
    /\ tpc[t] = "r_wait"
    /\ lock = 0
    /\ lock' = t
    /\ tpc' = [tpc EXCEPT ![t] = "r_close"]
    /\ UNCHANGED <<max_drivers, pool_module, available_drivers, active_drivers, shutdown_flag, created, quit, leased, released,
                   tdrv, ttmp, tres, spc, sd_leased>>

\* line 69: self._close_driver(driver)
ReleaseDriverClose(t) ==
    /\ tpc[t] = "r_close"
    /\ \E quitOk \in BOOLEAN : quit' = CloseDriver(tdrv[t], quitOk)
    /\ tpc' = [tpc EXCEPT ![t] = "r_dec"]
    /\ UNCHANGED <<max_drivers, pool_module, available_drivers, active_drivers, shutdown_flag, lock, created, leased, released,
                   tdrv, ttmp, tres, spc, sd_leased>>

\* line 70: self.active_drivers -= 1, the read
ReleaseDriverDecRead(t) ==
    /\ tpc[t] = "r_dec"
    /\ ttmp' = [ttmp EXCEPT ![t] = active_drivers]
    /\ tpc' = [tpc EXCEPT ![t] = "r_write"]
    /\ UNCHANGED <<poolVars, tdrv, tres, spc, sd_leased>>

\* line 70: the write of -= 1, the lock is released, the caller drops the driver
ReleaseDriverDecWrite(t) ==
    /\ tpc[t] = "r_write"
    /\ active_drivers' = ttmp[t] - 1
    /\ lock' = 0
    /\ tdrv' = [tdrv EXCEPT ![t] = 0]
    /\ tpc' = [tpc EXCEPT ![t] = "idle"]
    /\ ttmp' = [ttmp EXCEPT ![t] = 0]
    /\ UNCHANGED <<max_drivers, pool_module, available_drivers, shutdown_flag, created, quit, leased, released, tres, spc, sd_leased>>

(***************************************************************************)
(* shutdown (lines 99-111), called without the lock.  available_drivers is *)
(* never filled by this pool, so the loop of lines 104-109 closes nothing. *)
(***************************************************************************)
\* line 101: self._shutdown = True
ShutdownSetFlag ==
    /\ spc \in {"idle", "done"}
    /\ shutdown_flag' = TRUE
    /\ spc' = "reset"
    /\ sd_leased' = leased
    /\ UNCHANGED <<max_drivers, pool_module, available_drivers, active_drivers, lock, created, quit, leased, released,
                   tpc, tdrv, ttmp, tres>>

\* line 104-111: the empty queue is drained, self.active_drivers = 0
ShutdownReset ==
    /\ spc = "reset"
    /\ active_drivers' = 0
    /\ spc' = "done"
    /\ UNCHANGED <<max_drivers, pool_module, available_drivers, shutdown_flag, lock, created, quit, leased, released,
                   tpc, tdrv, ttmp, tres, sd_leased>>

(***************************************************************************)
(* URLs.  A URL is the sequence of the pieces it is written with, so that  *)
(* url.startswith(...) reads its first piece and 'everytime.kr' in url     *)
(* reads every piece.                                                      *)
(***************************************************************************)
HttpPrefixes == {"http://", "https://"}

PathPieces == {"/@abc", "/?ref="}

Urls ==
    { <<"https://", "everytime.kr", "/@abc">>,
      <<"ftp://", "everytime.kr", "/@abc">>,
      <<"https://", "unrelated-domain.example", "/@abc">>,
      <<"https://", "unrelated-domain.example", "/?ref=", "everytime.kr">>,
      <<>> }

\* url.startswith(('http://', 'https://')), everytime_base.py line 22
StartsWithHttp(url) == Len(url) > 0 /\ url[1] \in HttpPrefixes

\* 'everytime.kr' in url, everytime_base.py line 26
ContainsEverytime(url) == \E i \in 1..Len(url) : url[i] = "everytime.kr"

\* _validate_url (everytime_base.py lines 20-27): TRUE when it returns, FALSE
\* when it raises ValueError
ValidateUrlOk(url) == StartsWithHttp(url) /\ ContainsEverytime(url)

\* target_url = url or self.url; if not target_url: raise ValueError
\* (chromium_everytime.py lines 196-198, sync_playwright_everytime.py lines 42-44)
UrlGiven(url) == Len(url) > 0

\* url: HttpUrl = Query(...) (timetable.py line 39): FastAPI hands the handler
\* only http and https URLs that name a host
HttpUrlOk(url) == Len(url) >= 2 /\ url[1] \in HttpPrefixes

(***************************************************************************)
(* Documents.  A rendered document is the sequence of its day columns      *)
(* (soup.select('.wrap .tablebody .tablebody td')), a column the sequence  *)
(* of its subject blocks (day.select('.subject')), a block its style:      *)
(* height and top in pixels, or a style that cannot be read.               *)
(***************************************************************************)
DayEnum == <<"Monday", "Tuesday", "Wednesday", "Thursday", "Friday">>

Block(h, t) == [style_ok |-> TRUE, height |-> h, top |-> t]

BadBlock == [style_ok |-> FALSE, height |-> 0, top |-> 0]

\* the four statements of _extract_time_of_subject that compute the times
\* (everytime_base.py lines 39-42, everytime.py lines 291-294), px pixels to the hour
ExtractTimeAt(b, px) ==
    << b.top \div px,
       ((b.top % px) * 60) \div px,
       (b.top + b.height - 1) \div px,
       (((b.top + b.height - 1) % px) * 60) \div px >>

\* the same with the end taken at top + height
ExtractTimeOpenEnd(b) ==
    << b.top \div PART,
       ((b.top % PART) * 60) \div PART,
       (b.top + b.height) \div PART,
       (((b.top + b.height) % PART) * 60) \div PART >>

\* _extract_time_of_subject (everytime_base.py lines 29-46), for a style that parses
ExtractTime(b) == ExtractTimeAt(b, PART)

\* _extract_time_of_subject of TimetableParser (everytime.py lines 283-298)
ExtractTimeEverytime(b) == ExtractTimeAt(b, EVERYTIME_PART)

\* f"{n:02}" for 0 <= n <= 99: the two digits
TwoDigits(n) == << n \div 10, n % 10 >>

\* the subject_data of one block (chromium_everytime.py lines 232-244,
\* sync_playwright_everytime.py lines 134-146)
SubjectData(b, day_index) ==
    LET tm == ExtractTime(b)
    IN  [ day |-> DayEnum[day_index + 1],
          start_time |-> << TwoDigits(tm[1]), TwoDigits(tm[2]) >>,
          end_time |-> << TwoDigits(tm[3]), TwoDigits(tm[4]) >> ]

\* the inner loop over one column's subjects: [err, data]
RECURSIVE SubjectLoop(_, _, _, _)
SubjectLoop(subjects, i, day_index, acc) ==
    IF i > Len(subjects) THEN [err |-> "none", data |-> acc]
    ELSE IF day_index < Len(DayEnum)
         THEN IF subjects[i].style_ok
              THEN SubjectLoop(subjects, i + 1, day_index,
                               Append(acc, SubjectData(subjects[i], day_index)))
              ELSE [err |-> "malformed", data |-> acc]
         ELSE SubjectLoop(subjects, i + 1, day_index, acc)

\* the outer loop over the day columns: a column without subjects is skipped
\* by continue, before day_index += 1
RECURSIVE DayLoop(_, _, _, _)
DayLoop(days, i, day_index, acc) ==
    IF i > Len(days) THEN [err |-> "none", data |-> acc]
    ELSE IF Len(days[i]) = 0
         THEN DayLoop(days, i + 1, day_index, acc)
         ELSE LET r == SubjectLoop(days[i], 1, day_index, acc)
              IN  IF r.err # "none" THEN r
                  ELSE DayLoop(days, i + 1, day_index + 1, r.data)

\* _parse_html (sync_playwright_everytime.py lines 111-154) and the same
\* statements of chromium_everytime.py lines 212-250.  err is "none" on
\* success, else the reason of the ValueError raised.
ParseHtml(days) ==
    IF Len(days) = 0 THEN [err |-> "no_columns", data |-> <<>>]
    ELSE LET r == DayLoop(days, 1, 0, <<>>)
         IN  IF r.err # "none" THEN [err |-> r.err, data |-> <<>>]
             ELSE IF Len(r.data) = 0 THEN [err |-> "empty", data |-> <<>>]
             ELSE r

\* documents a navigation may load
Docs ==
    { <<>>,
      << <<>>, <<>> >>,
      << <<>>, << Block(50, 100) >> >>,
      << << BadBlock >> >> }

(***************************************************************************)
(* Initial values of the route, the followed request, the other requests   *)
(* and the counted requests.                                               *)
(***************************************************************************)
NoTime == [module |-> "none", err |-> "none", time |-> <<>>]

NoOut == [err |-> "not_run", data |-> <<>>]

\* no extraction run at hand
ExtractIdle ==
    /\ x_pc = "idle"
    /\ x_doc = <<>>
    /\ x_out = NoOut
    /\ x_time = NoTime

RouteInit(p) ==
    /\ platform = p
    /\ sem = MAX_CONCURRENT_JOBS

ReqIdle ==
    [ pc |-> "idle", entry |-> "none", backend |-> "none", url |-> <<>>,
      retries |-> 0, driver |-> 0, exc |-> "none", last_error |-> "none",
      pending |-> "none", result |-> "none", data |-> <<>>,
      slot |-> FALSE, slot_rel |-> 0, browser |-> FALSE, delivered |-> "none" ]

HistIdle ==
    [ get_calls |-> 0, navs |-> 0, launches |-> 0, rel_calls |-> 0,
      only_timeouts |-> TRUE, last_cause |-> "none" ]

ReqInit ==
    /\ req = ReqIdle
    /\ hist = HistIdle

OthersInit ==
    /\ o_inside = 0
    /\ o_holding = 0

Retries == 0..DEFAULT_MAX_RETRIES

GateInit(n) ==
    /\ g_wait = n
    /\ g_loop = [k \in Retries |-> 0]
    /\ g_hold = [k \in Retries |-> 0]
    /\ g_fin = 0
    /\ g_done = 0
    /\ g_full = FALSE
    /\ g_oloop = [k \in Retries |-> 0]
    /\ g_ohold = [k \in Retries |-> 0]

(***************************************************************************)
(* The pool as one request sees it: get_driver and release_driver run      *)
(* under self.lock, so each is one step here.                              *)
(***************************************************************************)
\* get_driver (chromium_everytime.py lines 39-59): how the call ends
GetDriverResult(createOk) ==
    IF shutdown_flag THEN "RuntimeError"
    ELSE IF CapOk(active_drivers, max_drivers)
         THEN IF createOk THEN "ok" ELSE "HTTP503_create"
         ELSE "HTTP503_capacity"

\* line 70: self.active_drivers -= 1
CounterAfterReleaseKept(n) == n

CounterAfterRelease(n) == n - 1

\* release_driver (lines 61-70) when called (doIt), nothing otherwise
PoolRelease(doIt, d) ==
    IF doIt
    THEN /\ leased' = leased \ {d}
         /\ released' = released \cup {d}
         /\ \E quitOk \in BOOLEAN : quit' = CloseDriver(d, quitOk)
         /\ active_drivers' = IF shutdown_flag THEN active_drivers
                              ELSE CounterAfterRelease(active_drivers)
    ELSE UNCHANGED <<leased, released, quit, active_drivers>>

HistRelease(h, doIt) == IF doIt THEN [h EXCEPT !.rel_calls = @ + 1] ELSE h

(***************************************************************************)
(* The retry tests: while retries <= max_retries (chromium_everytime.py    *)
(* line 194, sync_playwright_everytime.py line 53) and                     *)
(* if retries <= max_retries (lines 270 and 292, line 95).                 *)
(***************************************************************************)
RetriesLeftStrict(retries, max_retries) == retries < max_retries

RetriesLeft(retries, max_retries) == retries <= max_retries

(***************************************************************************)
(* Entering: through the route, or by calling parse_timetable directly     *)
(* (the __main__ blocks of both parser modules).                           *)
(***************************************************************************)
WorkerStart(backend) == IF backend = "chromium" THEN "c_loop" ELSE "p_validate"

\* timetable.py line 39, 50-55: the handler is entered; the backend follows
\* platform.system()
CallRoute ==
    /\ req.pc = "idle"
    /\ \E url \in Urls :
          /\ HttpUrlOk(url)
          /\ req' = [req EXCEPT !.pc = "gate", !.entry = "route", !.url = url,
                        !.backend = IF platform = "Windows" THEN "chromium"
                                    ELSE "playwright"]
    /\ UNCHANGED <<poolVars, threadVars, routeVars, extractVars, hist, otherVars, gateVars>>

\* chromium_everytime.py lines 315-318, sync_playwright_everytime.py lines 170-173
CallDirect ==
    /\ req.pc = "idle"
    /\ \E url \in Urls, backend \in {"chromium", "playwright"} :
          req' = [req EXCEPT !.pc = WorkerStart(backend), !.entry = "direct",
                     !.url = url, !.backend = backend]
    /\ UNCHANGED <<poolVars, threadVars, routeVars, extractVars, hist, otherVars, gateVars>>

\* asyncio.Semaphore.acquire returns only when a slot is free
SemFreeAlways(value) == TRUE

SemFree(value) == value > 0

\* timetable.py line 47: async with processing_semaphore
SemAcquire ==
    /\ req.pc = "gate"
    /\ SemFree(sem)
    /\ sem' = sem - 1
    /\ req' = [req EXCEPT !.pc = "submit", !.slot = TRUE]
    /\ UNCHANGED <<poolVars, threadVars, platform, extractVars, hist, otherVars, gateVars>>

\* timetable.py lines 50-59: parse_timetable_async submits the job to the
\* thread pool and the handler awaits its future; or parse_timetable_async
\* raises (the parser's constructor, or submit on a thread pool that
\* cleanup_resources has shut down) and no job exists
Submit ==
    /\ req.pc = "submit"
    /\ \/ /\ req' = [req EXCEPT !.pc = WorkerStart(req.backend)]
          /\ UNCHANGED hist
       \/ /\ req' = [req EXCEPT !.pc = "submit_failed", !.result = "RuntimeError"]
          /\ hist' = [hist EXCEPT !.only_timeouts = FALSE, !.last_cause = "submit"]
    /\ UNCHANGED <<poolVars, threadVars, routeVars, extractVars, otherVars, gateVars>>

(***************************************************************************)
(* ChromiumTimetableParser.parse_timetable (chromium_everytime.py lines    *)
(* 179-299).                                                               *)
(***************************************************************************)
\* lines 194-201: the while test, the URL checks
ChromiumLoop ==
    /\ req.pc = "c_loop"
    /\ IF ~RetriesLeft(req.retries, DEFAULT_MAX_RETRIES)
       THEN /\ req' = [req EXCEPT !.pc = "job_done", !.result = "None"]
            /\ UNCHANGED hist
       ELSE IF UrlGiven(req.url) /\ ValidateUrlOk(req.url)
       THEN /\ req' = [req EXCEPT !.pc = "c_get"]
            /\ UNCHANGED hist
       ELSE /\ req' = [req EXCEPT !.pc = "c_except", !.exc = "ValueError"]
            /\ hist' = [hist EXCEPT !.only_timeouts = FALSE,
                                    !.last_cause = "validation"]
    /\ UNCHANGED <<poolVars, threadVars, routeVars, extractVars, otherVars, gateVars>>

\* line 204: driver = DRIVER_POOL.get_driver().  When _create_driver raises
\* (lines 72-87), webdriver.Chrome has not started a browser, or it has and a
\* later statement raised: that browser is nobody's and is not quit.
ChromiumGetDriver ==
    /\ req.pc = "c_get"
    /\ \E createOk \in BOOLEAN :
          LET res == GetDriverResult(createOk)
          IN  IF res = "ok"
              THEN /\ created < MaxCreated
                   /\ created' = created + 1
                   /\ active_drivers' = active_drivers + 1
                   /\ leased' = leased \cup {NewDriver(created)}
                   /\ UNCHANGED released
                   /\ req' = [req EXCEPT !.pc = "c_nav", !.driver = NewDriver(created)]
                   /\ hist' = [hist EXCEPT !.get_calls = @ + 1, !.rel_calls = 0]
              ELSE /\ req' = [req EXCEPT !.pc = "c_except",
                                 !.exc = IF res = "RuntimeError" THEN "RuntimeError"
                                         ELSE "HTTPException"]
                   /\ hist' = [hist EXCEPT !.get_calls = @ + 1,
                                           !.only_timeouts = FALSE,
                                           !.last_cause = res]
                   /\ IF res = "HTTP503_create"
                      THEN \/ UNCHANGED created
                           \/ /\ created < MaxCreated
                              /\ created' = created + 1
                      ELSE UNCHANGED created
                   /\ UNCHANGED <<active_drivers, leased, released>>
    /\ UNCHANGED <<max_drivers, pool_module, available_drivers, shutdown_flag, lock, quit, threadVars, routeVars, extractVars,
                   otherVars, gateVars>>

\* what driver.get and the statements up to line 250 may raise
ChromiumFaults ==
    {"TimeoutException", "WebDriverException", "RequestException",
     "AttributeError", "Exception"}

\* lines 207-250: driver.get, the page source, the extraction
ChromiumNavigate ==
    /\ req.pc = "c_nav"
    /\ \/ \E fault \in ChromiumFaults :
             /\ req' = [req EXCEPT !.pc = "c_except", !.exc = fault]
             /\ hist' = [hist EXCEPT !.navs = @ + 1, !.last_cause = fault,
                            !.only_timeouts = @ /\ fault = "TimeoutException"]
       \/ \E doc \in Docs :
             LET res == ParseHtml(doc)
             IN  IF res.err = "none"
                 THEN /\ req' = [req EXCEPT !.pc = "c_success", !.data = res.data]
                      /\ hist' = [hist EXCEPT !.navs = @ + 1, !.last_cause = "none",
                                     !.only_timeouts = FALSE]
                 ELSE /\ req' = [req EXCEPT !.pc = "c_except", !.exc = "ValueError"]
                      /\ hist' = [hist EXCEPT !.navs = @ + 1, !.last_cause = res.err,
                                     !.only_timeouts = FALSE]
    /\ UNCHANGED <<poolVars, threadVars, routeVars, extractVars, otherVars, gateVars>>

\* lines 255, 266, 288: driver = None, after the release
DriverAfterReleaseKept(d) == d

DriverAfterRelease(d) == 0

\* lines 253-257: if driver: release_driver(driver); driver = None; return
ChromiumSuccess ==
    /\ req.pc = "c_success"
    /\ PoolRelease(req.driver # 0, req.driver)
    /\ req' = [req EXCEPT !.pc = "c_finally", !.pending = "ok",
                  !.driver = IF @ # 0 THEN DriverAfterRelease(@) ELSE @]
    /\ hist' = HistRelease(hist, req.driver # 0)
    /\ UNCHANGED <<max_drivers, pool_module, available_drivers, shutdown_flag, lock, created, threadVars, routeVars, extractVars,
                   otherVars, gateVars>>

\* the except clause an exception lands in (lines 259, 279, 281, 283)
ExceptClause(exc) ==
    IF exc \in {"TimeoutException", "WebDriverException"} THEN "driver"
    ELSE IF exc = "RequestException" THEN "request"
    ELSE IF exc = "ValueError" THEN "value"
    ELSE "other"

\* the except clauses that release the driver themselves (lines 264-266, 286-288)
ClauseReleasesNone(clause) == FALSE

ClauseReleases(clause) == clause \in {"driver", "other"}

\* lines 268 and 290: retries += 1, the one counter of both retrying clauses
RetriesAfterDriverOnly(clause, retries) ==
    IF clause = "driver" THEN retries + 1 ELSE retries

RetriesAfter(clause, retries) ==
    IF clause \in {"driver", "other"} THEN retries + 1 ELSE retries

\* lines 274-278: the failure raised when the driver clause has no retry left
DriverClauseStatusFlat(exc) == "HTTP503"

DriverClauseStatus(exc) == IF exc = "TimeoutException" THEN "HTTP504" ELSE "HTTP503"

\* lines 259-295: the except clauses, up to their sleep, continue or raise
ChromiumExcept ==
    /\ req.pc = "c_except"
    /\ LET clause == ExceptClause(req.exc)
           rel == ClauseReleases(clause) /\ req.driver # 0
           n == RetriesAfter(clause, req.retries)
           again == /\ RetriesLeft(n, DEFAULT_MAX_RETRIES)
                    /\ \/ clause = "driver"
                       \/ clause = "other" /\ req.exc = "AttributeError"
           status == IF clause = "driver" THEN DriverClauseStatus(req.exc)
                     ELSE IF clause = "request" THEN "HTTP503"
                     ELSE IF clause = "value" THEN "HTTP400"
                     ELSE "HTTP500"
       IN  /\ PoolRelease(rel, req.driver)
           /\ hist' = HistRelease(hist, rel)
           /\ req' = [req EXCEPT !.retries = n,
                         !.driver = IF rel THEN DriverAfterRelease(@) ELSE @,
                         !.pc = IF again THEN "c_backoff" ELSE "c_finally",
                         !.pending = IF again THEN "none" ELSE status]
    /\ UNCHANGED <<max_drivers, pool_module, available_drivers, shutdown_flag, lock, created, threadVars, routeVars, extractVars,
                   otherVars, gateVars>>

\* lines 271-272, 293-294: time.sleep(1); continue
ChromiumBackoff ==
    /\ req.pc = "c_backoff"
    /\ req' = [req EXCEPT !.pc = "c_finally", !.pending = "continue"]
    /\ UNCHANGED <<poolVars, threadVars, routeVars, extractVars, hist, otherVars, gateVars>>

\* line 298: if driver
FinallyReleasesNever(driver) == FALSE

FinallyReleases(driver) == driver # 0

\* lines 296-299: the finally block, then the continue, return or raise it was
\* entered with; the function's locals end with the function
ChromiumFinally ==
    /\ req.pc = "c_finally"
    /\ PoolRelease(FinallyReleases(req.driver), req.driver)
    /\ hist' = HistRelease(hist, FinallyReleases(req.driver))
    /\ IF req.pending = "continue"
       THEN req' = [req EXCEPT !.pc = "c_loop", !.pending = "none", !.exc = "none"]
       ELSE req' = [req EXCEPT !.pc = "job_done", !.result = req.pending,
                       !.pending = "none", !.exc = "none", !.driver = 0]
    /\ UNCHANGED <<max_drivers, pool_module, available_drivers, shutdown_flag, lock, created, threadVars, routeVars, extractVars,
                   otherVars, gateVars>>

(***************************************************************************)
(* SyncPlaywrightTimetableParser.parse_timetable                           *)
(* (sync_playwright_everytime.py lines 40-109).                            *)
(***************************************************************************)
\* lines 42-47: the URL checks, before the loop; their ValueError leaves the
\* function as it is
PlaywrightValidate ==
    /\ req.pc = "p_validate"
    /\ IF UrlGiven(req.url) /\ ValidateUrlOk(req.url)
       THEN /\ req' = [req EXCEPT !.pc = "p_loop"]
            /\ UNCHANGED hist
       ELSE /\ req' = [req EXCEPT !.pc = "job_done", !.result = "ValueError"]
            /\ hist' = [hist EXCEPT !.only_timeouts = FALSE,
                                    !.last_cause = "validation"]
    /\ UNCHANGED <<poolVars, threadVars, routeVars, extractVars, otherVars, gateVars>>

\* lines 101-109: the failure raised after the loop, from last_error
PlaywrightStatus(last_error) ==
    IF last_error = "TimeoutError" THEN "HTTP504"
    ELSE IF last_error = "Error" THEN "HTTP503"
    ELSE IF last_error = "ValueError" THEN "HTTP400"
    ELSE "HTTP500"

\* line 53 and lines 101-109: the while test; past it, the raise
PlaywrightLoop ==
    /\ req.pc = "p_loop"
    /\ IF RetriesLeft(req.retries, DEFAULT_MAX_RETRIES)
       THEN req' = [req EXCEPT !.pc = "p_launch"]
       ELSE req' = [req EXCEPT !.pc = "job_done",
                       !.result = PlaywrightStatus(req.last_error)]
    /\ UNCHANGED <<poolVars, threadVars, routeVars, extractVars, hist, otherVars, gateVars>>

\* what sync_playwright() and chromium.launch may raise: playwright's
\* TimeoutError (an Error whose message holds "timeout"), another Error,
\* anything else (OSError)
LaunchFaults == {"TimeoutError", "Error", "Exception"}

\* lines 55-65: sync_playwright() is entered and the browser launched, or the
\* launch raises
PlaywrightLaunch ==
    /\ req.pc = "p_launch"
    /\ \/ /\ req' = [req EXCEPT !.pc = "p_nav", !.browser = TRUE]
          /\ hist' = [hist EXCEPT !.launches = @ + 1]
       \/ \E fault \in LaunchFaults :
             /\ req' = [req EXCEPT !.pc = "p_except", !.exc = fault]
             /\ hist' = [hist EXCEPT !.launches = @ + 1, !.last_cause = "launch",
                            !.only_timeouts = FALSE]
    /\ UNCHANGED <<poolVars, threadVars, routeVars, extractVars, otherVars, gateVars>>

\* what page.goto and page.content may raise: playwright's TimeoutError (an
\* Error whose message holds "timeout"), another Error, anything else
PlaywrightFaults == {"TimeoutError", "Error", "Exception"}

\* lines 77-89: goto, content, the three close calls, _parse_html.  An
\* exception leaves the with block, which stops playwright and its browser.
PlaywrightNavigate ==
    /\ req.pc = "p_nav"
    /\ \/ \E fault \in PlaywrightFaults :
             /\ req' = [req EXCEPT !.pc = "p_except", !.exc = fault,
                           !.browser = FALSE]
             /\ hist' = [hist EXCEPT !.navs = @ + 1, !.last_cause = fault,
                            !.only_timeouts = @ /\ fault = "TimeoutError"]
       \/ \E doc \in Docs :
             LET res == ParseHtml(doc)
             IN  IF res.err = "none"
                 THEN /\ req' = [req EXCEPT !.pc = "job_done", !.result = "ok",
                                    !.data = res.data, !.browser = FALSE]
                      /\ hist' = [hist EXCEPT !.navs = @ + 1, !.last_cause = "none",
                                     !.only_timeouts = FALSE]
                 ELSE /\ req' = [req EXCEPT !.pc = "p_except", !.exc = "ValueError",
                                    !.browser = FALSE]
                      /\ hist' = [hist EXCEPT !.navs = @ + 1, !.last_cause = res.err,
                                     !.only_timeouts = FALSE]
    /\ UNCHANGED <<poolVars, threadVars, routeVars, extractVars, otherVars, gateVars>>

\* lines 91-96: last_error = e; retries += 1; the test before the sleep
PlaywrightExcept ==
    /\ req.pc = "p_except"
    /\ req' = [req EXCEPT !.last_error = req.exc, !.exc = "none",
                  !.retries = @ + 1,
                  !.pc = IF RetriesLeft(req.retries + 1, DEFAULT_MAX_RETRIES)
                         THEN "p_backoff" ELSE "p_loop"]
    /\ UNCHANGED <<poolVars, threadVars, routeVars, extractVars, hist, otherVars, gateVars>>

\* lines 97-99: time.sleep(1); continue
PlaywrightBackoff ==
    /\ req.pc = "p_backoff"
    /\ req' = [req EXCEPT !.pc = "p_loop"]
    /\ UNCHANGED <<poolVars, threadVars, routeVars, extractVars, hist, otherVars, gateVars>>

(***************************************************************************)
(* Leaving: the job's future completes; the handler leaves the semaphore   *)
(* and answers (timetable.py lines 59-68), or the direct caller gets the   *)
(* result.                                                                 *)
(***************************************************************************)
\* asyncio.Semaphore.release, called by the exit of async with
SemReleasedKept(value) == value

SemReleased(value) == value + 1

\* timetable.py line 59 returns or raises, or lines 50-55 raise, and the
\* async with block is left: the slot is released
SemRelease ==
    /\ req.pc \in {"job_done", "submit_failed"}
    /\ req.entry = "route"
    /\ sem' = SemReleased(sem)
    /\ req' = [req EXCEPT !.pc = "respond", !.slot = FALSE, !.slot_rel = @ + 1]
    /\ UNCHANGED <<poolVars, threadVars, platform, extractVars, hist, otherVars, gateVars>>

\* timetable.py lines 61-68: the answer, an HTTPException as it is, anything
\* else as HTTPException(500)
RouteStatus(result) ==
    IF result = "ok" THEN "200"
    ELSE IF result \in {"HTTP400", "HTTP500", "HTTP503", "HTTP504"} THEN result
    ELSE "HTTP500"

Respond ==
    /\ req.pc = "respond"
    /\ req' = [req EXCEPT !.pc = "delivered", !.delivered = RouteStatus(req.result)]
    /\ UNCHANGED <<poolVars, threadVars, routeVars, extractVars, hist, otherVars, gateVars>>

\* parse_timetable returns or raises to its direct caller
DirectReturn ==
    /\ req.pc = "job_done"
    /\ req.entry = "direct"
    /\ req' = [req EXCEPT !.pc = "delivered", !.delivered = req.result]
    /\ UNCHANGED <<poolVars, threadVars, routeVars, extractVars, hist, otherVars, gateVars>>

(***************************************************************************)
(* The other requests of the process, on the Chromium backend: each is     *)
(* admitted by the semaphore, takes and returns drivers, and leaves.       *)
(***************************************************************************)
\* timetable.py line 47
OtherAdmit ==
    /\ o_inside + o_holding < NumOthers
    /\ SemFree(sem)
    /\ sem' = sem - 1
    /\ o_inside' = o_inside + 1
    /\ UNCHANGED <<poolVars, threadVars, platform, extractVars, reqVars, o_holding, gateVars>>

\* chromium_everytime.py line 204, when get_driver returns a driver
OtherGetDriver ==
    /\ platform = "Windows"
    /\ o_inside > 0
    /\ GetDriverResult(TRUE) = "ok"
    /\ active_drivers' = active_drivers + 1
    /\ o_inside' = o_inside - 1
    /\ o_holding' = o_holding + 1
    /\ UNCHANGED <<max_drivers, pool_module, available_drivers, shutdown_flag, lock, created, quit, leased, released,
                   threadVars, routeVars, extractVars, reqVars, gateVars>>

\* chromium_everytime.py lines 254, 265, 287, 299
OtherReleaseDriver ==
    /\ o_holding > 0
    /\ active_drivers' = IF shutdown_flag THEN active_drivers ELSE active_drivers - 1
    /\ o_holding' = o_holding - 1
    /\ o_inside' = o_inside + 1
    /\ UNCHANGED <<max_drivers, pool_module, available_drivers, shutdown_flag, lock, created, quit, leased, released,
                   threadVars, routeVars, extractVars, reqVars, gateVars>>

\* timetable.py lines 59-68
OtherExit ==
    /\ o_inside > 0
    /\ sem' = SemReleased(sem)
    /\ o_inside' = o_inside - 1
    /\ UNCHANGED <<poolVars, threadVars, platform, extractVars, reqVars, o_holding, gateVars>>

InitReq ==
    /\ PoolInit(POOL_MAX_DRIVERS)
    /\ ThreadsInit
    /\ \E p \in {"Windows", "Linux"} : RouteInit(p)
    /\ ExtractIdle
    /\ ReqInit
    /\ OthersInit
    /\ GateInit(0)

NextReq ==
    \/ CallRoute
    \/ CallDirect
    \/ SemAcquire
    \/ Submit
    \/ ChromiumLoop
    \/ ChromiumGetDriver
    \/ ChromiumNavigate
    \/ ChromiumSuccess
    \/ ChromiumExcept
    \/ ChromiumBackoff
    \/ ChromiumFinally
    \/ PlaywrightValidate
    \/ PlaywrightLoop
    \/ PlaywrightLaunch
    \/ PlaywrightNavigate
    \/ PlaywrightExcept
    \/ PlaywrightBackoff
    \/ SemRelease
    \/ Respond
    \/ DirectReturn
    \/ OtherAdmit
    \/ OtherGetDriver
    \/ OtherReleaseDriver
    \/ OtherExit

\* one request followed through get_timetable and parse_timetable, beside
\* other admitted requests
SpecReq == InitReq /\ [][NextReq]_vars

\* a step of the worker thread that runs ChromiumTimetableParser.parse_timetable
ChromiumJobStep ==
    \/ ChromiumLoop
    \/ ChromiumGetDriver
    \/ ChromiumNavigate
    \/ ChromiumSuccess
    \/ ChromiumExcept
    \/ ChromiumBackoff
    \/ ChromiumFinally

\* the same, where the worker thread of the Chromium job keeps running: its
\* calls return or raise and its sleeps end
FairSpecReq == SpecReq /\ WF_vars(ChromiumJobStep)

(***************************************************************************)
(* Many requests at the semaphore.  The requests run the same code and     *)
(* differ only in the place they are at, so the state counts the requests  *)
(* at each place: before the semaphore, at the top of the retry loop with  *)
(* k retries made, holding a driver (Chromium) or a browser (Playwright)   *)
(* in attempt k, finished inside the semaphore, and out of the handler.    *)
(***************************************************************************)
RECURSIVE SumUpTo(_, _)
SumUpTo(f, k) == IF k < 0 THEN 0 ELSE f[k] + SumUpTo(f, k - 1)

\* THREAD_POOL (chromium_everytime.py line 115) and _thread_executor
\* (sync_playwright_everytime.py line 25): the worker threads that run the jobs
ExecutorWorkers ==
    IF platform = "Windows" THEN CHROMIUM_WORKERS ELSE PLAYWRIGHT_WORKERS

\* the jobs a worker thread is running for certain: those past their first
\* attempt and those holding a driver or a browser.  A job at the top of the
\* loop with no retry made has a worker or waits in the executor's queue.
StartedJobs ==
    (SumUpTo(g_loop, DEFAULT_MAX_RETRIES) - g_loop[0])
    + SumUpTo(g_hold, DEFAULT_MAX_RETRIES)
    + (SumUpTo(g_oloop, DEFAULT_MAX_RETRIES) - g_oloop[0])
    + SumUpTo(g_ohold, DEFAULT_MAX_RETRIES)

\* ThreadPoolExecutor runs a submitted job only on one of its max_workers threads
WorkerFreeAlways(busy, workers) == TRUE

WorkerFree(busy, workers) == busy < workers

\* a job with k retries made can take a step: it has a worker, or gets one
RunsOnWorker(k) == k > 0 \/ WorkerFree(StartedJobs, ExecutorWorkers)

\* timetable.py line 47: async with processing_semaphore; lines 50-59: the job
\* is submitted to the executor
GateAcquire ==
    /\ g_wait > 0
    /\ SemFree(sem)
    /\ sem' = sem - 1
    /\ g_wait' = g_wait - 1
    /\ g_loop' = [g_loop EXCEPT ![0] = @ + 1]
    /\ UNCHANGED <<g_hold, g_fin, g_done, g_full>>
    /\ UNCHANGED <<poolVars, threadVars, platform, extractVars, reqVars, otherVars, orphanVars>>

\* _validate_url raises: the job ends at once (chromium_everytime.py lines
\* 201, 281-282; sync_playwright_everytime.py line 47)
GateValidationFails ==
    /\ g_loop[0] > 0
    /\ RunsOnWorker(0)
    /\ g_loop' = [g_loop EXCEPT ![0] = @ - 1]
    /\ g_fin' = g_fin + 1
    /\ UNCHANGED <<g_wait, g_hold, g_done, g_full>>
    /\ UNCHANGED <<poolVars, threadVars, routeVars, extractVars, reqVars, otherVars, orphanVars>>

\* chromium_everytime.py line 204: get_driver returns a driver, or raises and
\* the except clause of lines 283-295 ends the job
GateGetDriver(k) ==
    /\ platform = "Windows"
    /\ g_loop[k] > 0
    /\ RunsOnWorker(k)
    /\ \E createOk \in BOOLEAN :
          LET res == GetDriverResult(createOk)
          IN  IF res = "ok"
              THEN /\ active_drivers' = active_drivers + 1
                   /\ g_loop' = [g_loop EXCEPT ![k] = @ - 1]
                   /\ g_hold' = [g_hold EXCEPT ![k] = @ + 1]
                   /\ UNCHANGED <<g_fin, g_full>>
              ELSE /\ g_loop' = [g_loop EXCEPT ![k] = @ - 1]
                   /\ g_fin' = g_fin + 1
                   /\ g_full' = (g_full \/ res = "HTTP503_capacity")
                   /\ UNCHANGED <<active_drivers, g_hold>>
    /\ UNCHANGED <<g_wait, g_done>>
    /\ UNCHANGED <<max_drivers, pool_module, available_drivers, shutdown_flag, lock, created, quit, leased, released,
                   threadVars, routeVars, extractVars, reqVars, otherVars, orphanVars>>

\* where a request goes after a failed attempt k: back to the loop while
\* retries are left, else to the end of the job
GateAfterFailure(k) ==
    IF RetriesLeft(k + 1, DEFAULT_MAX_RETRIES)
    THEN /\ g_loop' = [g_loop EXCEPT ![k] = @ - 1, ![k + 1] = @ + 1]
         /\ UNCHANGED g_fin
    ELSE /\ g_loop' = [g_loop EXCEPT ![k] = @ - 1]
         /\ g_fin' = g_fin + 1

\* sync_playwright_everytime.py lines 55-64: the browser is launched, or the
\* launch raises and the attempt has failed
GateLaunch(k) ==
    /\ platform = "Linux"
    /\ g_loop[k] > 0
    /\ RunsOnWorker(k)
    /\ \/ /\ g_loop' = [g_loop EXCEPT ![k] = @ - 1]
          /\ g_hold' = [g_hold EXCEPT ![k] = @ + 1]
          /\ UNCHANGED g_fin
       \/ /\ GateAfterFailure(k)
          /\ UNCHANGED g_hold
    /\ UNCHANGED <<g_wait, g_done, g_full>>
    /\ UNCHANGED <<poolVars, threadVars, routeVars, extractVars, reqVars, otherVars, orphanVars>>

\* the attempt ends: the driver is released (chromium_everytime.py lines 254,
\* 265, 287, 299) or the browser closed; the job returns or raises, or, after
\* a failure that is retried, goes back to the loop
GateAttemptEnds(k) ==
    /\ g_hold[k] > 0
    /\ active_drivers' = IF platform = "Windows" /\ ~shutdown_flag
                         THEN active_drivers - 1 ELSE active_drivers
    /\ \E again \in BOOLEAN :
          IF again /\ RetriesLeft(k + 1, DEFAULT_MAX_RETRIES)
          THEN /\ g_hold' = [g_hold EXCEPT ![k] = @ - 1]
               /\ g_loop' = [g_loop EXCEPT ![k + 1] = @ + 1]
               /\ UNCHANGED g_fin
          ELSE /\ g_hold' = [g_hold EXCEPT ![k] = @ - 1]
               /\ g_fin' = g_fin + 1
               /\ UNCHANGED g_loop
    /\ UNCHANGED <<g_wait, g_done, g_full>>
    /\ UNCHANGED <<max_drivers, pool_module, available_drivers, shutdown_flag, lock, created, quit, leased, released,
                   threadVars, routeVars, extractVars, reqVars, otherVars, orphanVars>>

\* timetable.py lines 59-68: the future is done, the async with block is left
\* and the handler answers
GateExit ==
    /\ g_fin > 0
    /\ sem' = SemReleased(sem)
    /\ g_fin' = g_fin - 1
    /\ g_done' = g_done + 1
    /\ UNCHANGED <<g_wait, g_loop, g_hold, g_full>>
    /\ UNCHANGED <<poolVars, threadVars, platform, extractVars, reqVars, otherVars, orphanVars>>

InitGate ==
    /\ PoolInit(POOL_MAX_DRIVERS)
    /\ ThreadsInit
    /\ \E p \in {"Windows", "Linux"} : RouteInit(p)
    /\ ExtractIdle
    /\ ReqInit
    /\ OthersInit
    /\ GateInit(NumGateReq)

NextGate ==
    \/ GateAcquire
    \/ GateValidationFails
    \/ \E k \in Retries : GateGetDriver(k)
    \/ \E k \in Retries : GateLaunch(k)
    \/ \E k \in Retries : GateAttemptEnds(k)
    \/ GateExit

\* NumGateReq requests calling get_timetable at once
SpecGate == InitGate /\ [][NextGate]_vars

\* the same, where the event loop and the worker threads keep running: a step
\* that can be taken is taken
FairSpecGate == SpecGate /\ WF_vars(NextGate)

\* requests inside the semaphore

GateInside == SumUpTo(g_loop, DEFAULT_MAX_RETRIES) + SumUpTo(g_hold, DEFAULT_MAX_RETRIES) + g_fin

(***************************************************************************)
(* Handlers that leave while their job is running.  The await of            *)
(* timetable.py line 59 raises in the handler (asyncio.CancelledError when  *)
(* the handler's task is cancelled); the async with block is left and the   *)
(* slot released, while the job, already submitted to the thread pool       *)
(* (chromium_everytime.py line 177, sync_playwright_everytime.py line 38),  *)
(* runs on to its end.                                                      *)
(***************************************************************************)
\* jobs running without a handler
OrphanJobs ==
    SumUpTo(g_oloop, DEFAULT_MAX_RETRIES) + SumUpTo(g_ohold, DEFAULT_MAX_RETRIES)

\* jobs submitted to the thread pool that have not finished
JobsInFlight ==
    SumUpTo(g_loop, DEFAULT_MAX_RETRIES) + SumUpTo(g_hold, DEFAULT_MAX_RETRIES)
    + OrphanJobs

\* the handler of a job at the top of its loop is cancelled
GateCancelWaiting(k) ==
    /\ g_loop[k] > 0
    /\ OrphanJobs < MaxOrphans
    /\ sem' = SemReleased(sem)
    /\ g_loop' = [g_loop EXCEPT ![k] = @ - 1]
    /\ g_oloop' = [g_oloop EXCEPT ![k] = @ + 1]
    /\ g_done' = g_done + 1
    /\ UNCHANGED <<g_wait, g_hold, g_fin, g_full, g_ohold>>
    /\ UNCHANGED <<poolVars, threadVars, platform, extractVars, reqVars, otherVars>>

\* the handler of a job that holds a driver or a browser is cancelled
GateCancelHolding(k) ==
    /\ g_hold[k] > 0
    /\ OrphanJobs < MaxOrphans
    /\ sem' = SemReleased(sem)
    /\ g_hold' = [g_hold EXCEPT ![k] = @ - 1]
    /\ g_ohold' = [g_ohold EXCEPT ![k] = @ + 1]
    /\ g_done' = g_done + 1
    /\ UNCHANGED <<g_wait, g_loop, g_fin, g_full, g_oloop>>
    /\ UNCHANGED <<poolVars, threadVars, platform, extractVars, reqVars, otherVars>>

\* where such a job goes after a failed attempt k
OrphanAfterFailure(k) ==
    IF RetriesLeft(k + 1, DEFAULT_MAX_RETRIES)
    THEN g_oloop' = [g_oloop EXCEPT ![k] = @ - 1, ![k + 1] = @ + 1]
    ELSE g_oloop' = [g_oloop EXCEPT ![k] = @ - 1]

\* its URL check fails and it ends
OrphanValidationFails ==
    /\ g_oloop[0] > 0
    /\ RunsOnWorker(0)
    /\ g_oloop' = [g_oloop EXCEPT ![0] = @ - 1]
    /\ UNCHANGED <<g_wait, g_loop, g_hold, g_fin, g_done, g_full, g_ohold>>
    /\ UNCHANGED <<poolVars, threadVars, routeVars, extractVars, reqVars, otherVars>>

\* chromium_everytime.py line 204, as GateGetDriver
OrphanGetDriver(k) ==
    /\ platform = "Windows"
    /\ g_oloop[k] > 0
    /\ RunsOnWorker(k)
    /\ \E createOk \in BOOLEAN :
          IF GetDriverResult(createOk) = "ok"
          THEN /\ active_drivers' = active_drivers + 1
               /\ g_oloop' = [g_oloop EXCEPT ![k] = @ - 1]
               /\ g_ohold' = [g_ohold EXCEPT ![k] = @ + 1]
               /\ UNCHANGED g_full
          ELSE /\ g_oloop' = [g_oloop EXCEPT ![k] = @ - 1]
               /\ g_full' = (g_full \/ GetDriverResult(createOk) = "HTTP503_capacity")
               /\ UNCHANGED <<active_drivers, g_ohold>>
    /\ UNCHANGED <<g_wait, g_loop, g_hold, g_fin, g_done>>
    /\ UNCHANGED <<max_drivers, pool_module, available_drivers, shutdown_flag, lock, created, quit, leased, released,
                   threadVars, routeVars, extractVars, reqVars, otherVars>>

\* sync_playwright_everytime.py lines 55-64, as GateLaunch
OrphanLaunch(k) ==
    /\ platform = "Linux"
    /\ g_oloop[k] > 0
    /\ RunsOnWorker(k)
    /\ \/ /\ g_oloop' = [g_oloop EXCEPT ![k] = @ - 1]
          /\ g_ohold' = [g_ohold EXCEPT ![k] = @ + 1]
       \/ /\ OrphanAfterFailure(k)
          /\ UNCHANGED g_ohold
    /\ UNCHANGED <<g_wait, g_loop, g_hold, g_fin, g_done, g_full>>
    /\ UNCHANGED <<poolVars, threadVars, routeVars, extractVars, reqVars, otherVars>>

\* the attempt ends, as GateAttemptEnds; a job that returns or raises is over
OrphanAttemptEnds(k) ==
    /\ g_ohold[k] > 0
    /\ active_drivers' = IF platform = "Windows" /\ ~shutdown_flag
                         THEN active_drivers - 1 ELSE active_drivers
    /\ \E again \in BOOLEAN :
          IF again /\ RetriesLeft(k + 1, DEFAULT_MAX_RETRIES)
          THEN /\ g_ohold' = [g_ohold EXCEPT ![k] = @ - 1]
               /\ g_oloop' = [g_oloop EXCEPT ![k + 1] = @ + 1]
          ELSE /\ g_ohold' = [g_ohold EXCEPT ![k] = @ - 1]
               /\ UNCHANGED g_oloop
    /\ UNCHANGED <<g_wait, g_loop, g_hold, g_fin, g_done, g_full>>
    /\ UNCHANGED <<max_drivers, pool_module, available_drivers, shutdown_flag, lock, created, quit, leased, released,
                   threadVars, routeVars, extractVars, reqVars, otherVars>>

NextCancel ==
    \/ NextGate
    \/ \E k \in Retries : GateCancelWaiting(k)
    \/ \E k \in Retries : GateCancelHolding(k)
    \/ OrphanValidationFails
    \/ \E k \in Retries : OrphanGetDriver(k)
    \/ \E k \in Retries : OrphanLaunch(k)
    \/ \E k \in Retries : OrphanAttemptEnds(k)

\* NumGateReq requests calling get_timetable, any of which may be cancelled
\* while it awaits its job
SpecCancel == InitGate /\ [][NextCancel]_vars

GetDriverStep(t) ==
    \/ GetDriverLock(t)
    \/ GetDriverCheckShutdown(t)
    \/ GetDriverCheckCap(t)
    \/ GetDriverCreate(t)
    \/ GetDriverCreateFails(t)
    \/ GetDriverIncRead(t)
    \/ GetDriverIncWrite(t)

ReleaseDriverStep(t) ==
    \/ ReleaseDriverCheckShutdown(t)
    \/ ReleaseDriverLock(t)
    \/ ReleaseDriverClose(t)
    \/ ReleaseDriverDecRead(t)
    \/ ReleaseDriverDecWrite(t)

InitPool ==
    /\ \E cap \in 1..MaxCap : PoolInit(cap)
    /\ ThreadsInit
    /\ RouteInit("Windows")
    /\ ExtractIdle
    /\ ReqInit
    /\ OthersInit
    /\ GateInit(0)

NextPool ==
    /\ \E t \in Threads : GetDriverStep(t) \/ ReleaseDriverStep(t)
    /\ UNCHANGED <<routeVars, extractVars, reqVars, otherVars, gateVars>>

NextPoolSd ==
    \/ NextPool
    \/ (ShutdownSetFlag \/ ShutdownReset) /\ UNCHANGED <<routeVars, extractVars, reqVars, otherVars, gateVars>>

\* the threads at work while shutdown() runs
ClosingThreads == 1..NumReuseThreads

NextPoolClosing ==
    /\ \/ \E t \in ClosingThreads : GetDriverStep(t) \/ ReleaseDriverStep(t)
       \/ ShutdownSetFlag
       \/ ShutdownReset
    /\ UNCHANGED <<routeVars, extractVars, reqVars, otherVars, gateVars>>

\* a few threads calling get_driver and release_driver on one pool, with
\* shutdown() called at any moment
SpecPoolClosing == InitPool /\ [][NextPoolClosing]_vars

\* threads calling get_driver and release_driver on one pool
SpecPool == InitPool /\ [][NextPool]_vars

\* the same, with shutdown() called at any moment
SpecPoolSd == InitPool /\ [][NextPoolSd]_vars

(***************************************************************************)
(* The reusing WebDriverPool of utils/everytime.py, statement by           *)
(* statement: release_driver puts a healthy driver into available_drivers  *)
(* and get_driver hands it out again.  Whether driver.title answers is the *)
(* browser's matter: either outcome at every test.                         *)
(***************************************************************************)
ReuseThreads == 1..NumReuseThreads

\* browsers the reusing pool starts at most
MaxReuseCreated == 2

\* everytime.py lines 23-33: WebDriverPool.__init__
ReusePoolInit(cap) ==
    /\ max_drivers = cap
    /\ pool_module = "everytime"
    /\ active_drivers = 0
    /\ shutdown_flag = FALSE
    /\ lock = 0
    /\ created = 0
    /\ quit = {}
    /\ leased = {}
    /\ released = {}
    /\ available_drivers = <<>>

\* lines 35-37: get_driver is called, no result yet; with self.lock
ReuseGetLock(t) ==
    /\ tpc[t] = "idle"
    /\ tdrv[t] = 0
    /\ lock = 0
    /\ lock' = t
    /\ tpc' = [tpc EXCEPT ![t] = "u_locked"]
    /\ tres' = [tres EXCEPT ![t] = "none"]
    /\ UNCHANGED <<max_drivers, pool_module, active_drivers, shutdown_flag, created,
                   quit, leased, released, available_drivers,
                   tdrv, ttmp, spc, sd_leased>>

\* lines 39-40: if self._shutdown: raise RuntimeError
ReuseGetCheckShutdown(t) ==
    /\ tpc[t] = "u_locked"
    /\ IF shutdown_flag
       THEN /\ tpc' = [tpc EXCEPT ![t] = "idle"]
            /\ tres' = [tres EXCEPT ![t] = "RuntimeError"]
            /\ lock' = 0
       ELSE /\ tpc' = [tpc EXCEPT ![t] = "u_queue"]
            /\ UNCHANGED <<tres, lock>>
    /\ UNCHANGED <<max_drivers, pool_module, active_drivers, shutdown_flag, created,
                   quit, leased, released, available_drivers,
                   tdrv, ttmp, spc, sd_leased>>

\* queue.Queue.get_nowait and get: the head leaves the queue
QueueAfterGetKept(q) == q

QueueAfterGet(q) == Tail(q)

\* lines 42-44, 54-56: driver = self.available_drivers.get_nowait(), or queue.Empty
ReuseGetNowait(t) ==
    /\ tpc[t] = "u_queue"
    /\ IF available_drivers # <<>>
       THEN /\ tdrv' = [tdrv EXCEPT ![t] = Head(available_drivers)]
            /\ available_drivers' = QueueAfterGet(available_drivers)
            /\ tpc' = [tpc EXCEPT ![t] = "u_title"]
       ELSE /\ tpc' = [tpc EXCEPT ![t] = "u_cap"]
            /\ UNCHANGED <<tdrv, available_drivers>>
    /\ UNCHANGED <<max_drivers, pool_module, active_drivers, shutdown_flag, lock,
                   created, quit, leased, released, ttmp, tres, spc, sd_leased>>

\* lines 47-53: driver.title answers: return driver; it raises: the driver is
\* closed and a new one is to be made
ReuseGetCheckTitle(t) ==
    /\ tpc[t] = "u_title"
    /\ \/ /\ leased' = leased \cup {tdrv[t]}
          /\ lock' = 0
          /\ tres' = [tres EXCEPT ![t] = "ok"]
          /\ tpc' = [tpc EXCEPT ![t] = "idle"]
          /\ UNCHANGED <<quit, tdrv>>
       \/ /\ \E quitOk \in BOOLEAN : quit' = CloseDriver(tdrv[t], quitOk)
          /\ tdrv' = [tdrv EXCEPT ![t] = 0]
          /\ tpc' = [tpc EXCEPT ![t] = "u_cap"]
          /\ UNCHANGED <<leased, lock, tres>>
    /\ UNCHANGED <<max_drivers, pool_module, active_drivers, shutdown_flag, created,
                   released, available_drivers, ttmp, spc, sd_leased>>

\* lines 59, 65: if self.active_drivers < self.max_drivers, else HTTPException(503)
ReuseGetCheckCap(t) ==
    /\ tpc[t] = "u_cap"
    /\ IF CapOk(active_drivers, max_drivers)
       THEN /\ tpc' = [tpc EXCEPT ![t] = "u_create"]
            /\ UNCHANGED <<tres, lock>>
       ELSE /\ tpc' = [tpc EXCEPT ![t] = "idle"]
            /\ tres' = [tres EXCEPT ![t] = "HTTP503_capacity"]
            /\ lock' = 0
    /\ UNCHANGED <<max_drivers, pool_module, active_drivers, shutdown_flag, created,
                   quit, leased, released, available_drivers,
                   tdrv, ttmp, spc, sd_leased>>

\* line 60: driver = self._create_driver(); its exception leaves get_driver as
\* it is.  _create_driver (lines 84-88) raises before webdriver.Chrome has
\* started a browser, or after it, in set_page_load_timeout: that browser is
\* nobody's and is not quit.
ReuseGetCreate(t) ==
    /\ tpc[t] = "u_create"
    /\ \/ /\ created < MaxReuseCreated
          /\ created' = created + 1
          /\ tdrv' = [tdrv EXCEPT ![t] = NewDriver(created)]
          /\ tpc' = [tpc EXCEPT ![t] = "u_inc"]
          /\ UNCHANGED <<lock, tres>>
       \/ /\ tpc' = [tpc EXCEPT ![t] = "idle"]
          /\ tres' = [tres EXCEPT ![t] = "WebDriverException"]
          /\ lock' = 0
          /\ \/ UNCHANGED created
             \/ /\ created < MaxReuseCreated
                /\ created' = created + 1
          /\ UNCHANGED tdrv
    /\ UNCHANGED <<max_drivers, pool_module, active_drivers, shutdown_flag,
                   quit, leased, released, available_drivers, ttmp, spc, sd_leased>>

\* line 61: self.active_drivers += 1, the read
ReuseGetIncRead(t) ==
    /\ tpc[t] = "u_inc"
    /\ ttmp' = [ttmp EXCEPT ![t] = active_drivers]
    /\ tpc' = [tpc EXCEPT ![t] = "u_write"]
    /\ UNCHANGED <<poolVars, tdrv, tres, spc, sd_leased>>

\* lines 61-62: the write of += 1, return driver
ReuseGetIncWrite(t) ==
    /\ tpc[t] = "u_write"
    /\ active_drivers' = ttmp[t] + 1
    /\ leased' = leased \cup {tdrv[t]}
    /\ lock' = 0
    /\ tres' = [tres EXCEPT ![t] = "ok"]
    /\ tpc' = [tpc EXCEPT ![t] = "idle"]
    /\ ttmp' = [ttmp EXCEPT ![t] = 0]
    /\ UNCHANGED <<max_drivers, pool_module, shutdown_flag, created, quit, released,
                   available_drivers, tdrv, spc, sd_leased>>

\* line 69-71: _shutdown is read without the lock; when set, close and return
ReuseRelCheckShutdown(t) ==
    /\ tpc[t] = "idle"
    /\ tdrv[t] # 0
    /\ leased' = leased \ {tdrv[t]}
    /\ released' = released \cup {tdrv[t]}
    /\ IF shutdown_flag
       THEN /\ \E quitOk \in BOOLEAN : quit' = CloseDriver(tdrv[t], quitOk)
            /\ tdrv' = [tdrv EXCEPT ![t] = 0]
            /\ UNCHANGED tpc
       ELSE /\ tpc' = [tpc EXCEPT ![t] = "v_wait"]
            /\ UNCHANGED <<quit, tdrv>>
    /\ UNCHANGED <<max_drivers, pool_module, active_drivers, shutdown_flag, lock,
                   created, available_drivers, ttmp, tres, spc, sd_leased>>

\* line 73: with self.lock
ReuseRelLock(t) ==
    /\ tpc[t] = "v_wait"
    /\ lock = 0
    /\ lock' = t
    /\ tpc' = [tpc EXCEPT ![t] = "v_title"]
    /\ UNCHANGED <<max_drivers, pool_module, active_drivers, shutdown_flag, created,
                   quit, leased, released, available_drivers,
                   tdrv, ttmp, tres, spc, sd_leased>>

\* lines 74-81: driver.title answers: self.available_drivers.put(driver) and the
\* caller drops the driver; it raises: self._close_driver(driver)
ReuseRelCheckTitle(t) ==
    /\ tpc[t] = "v_title"
    /\ \/ /\ available_drivers' = Append(available_drivers, tdrv[t])
          /\ tdrv' = [tdrv EXCEPT ![t] = 0]
          /\ lock' = 0
          /\ tpc' = [tpc EXCEPT ![t] = "idle"]
          /\ UNCHANGED quit
       \/ /\ \E quitOk \in BOOLEAN : quit' = CloseDriver(tdrv[t], quitOk)
          /\ tpc' = [tpc EXCEPT ![t] = "v_dec"]
          /\ UNCHANGED <<available_drivers, tdrv, lock>>
    /\ UNCHANGED <<max_drivers, pool_module, active_drivers, shutdown_flag, created,
                   leased, released, ttmp, tres, spc, sd_leased>>

\* line 82: self.active_drivers -= 1, the read
ReuseRelDecRead(t) ==
    /\ tpc[t] = "v_dec"
    /\ ttmp' = [ttmp EXCEPT ![t] = active_drivers]
    /\ tpc' = [tpc EXCEPT ![t] = "v_write"]
    /\ UNCHANGED <<poolVars, tdrv, tres, spc, sd_leased>>

\* line 82: the write of -= 1, the lock is released, the caller drops the driver
ReuseRelDecWrite(t) ==
    /\ tpc[t] = "v_write"
    /\ active_drivers' = ttmp[t] - 1
    /\ lock' = 0
    /\ tdrv' = [tdrv EXCEPT ![t] = 0]
    /\ tpc' = [tpc EXCEPT ![t] = "idle"]
    /\ ttmp' = [ttmp EXCEPT ![t] = 0]
    /\ UNCHANGED <<max_drivers, pool_module, shutdown_flag, created, quit, leased,
                   released, available_drivers, tres, spc, sd_leased>>

\* line 99: self._shutdown = True, without the lock
ReuseShutdownSetFlag ==
    /\ spc \in {"idle", "done"}
    /\ shutdown_flag' = TRUE
    /\ spc' = "s_test"
    /\ UNCHANGED <<max_drivers, pool_module, active_drivers, lock, created, quit,
                   leased, released, available_drivers,
                   tpc, tdrv, ttmp, tres, sd_leased>>

\* line 102: while not self.available_drivers.empty()
ReuseShutdownTestEmpty ==
    /\ spc = "s_test"
    /\ spc' = IF available_drivers = <<>> THEN "reset" ELSE "s_get"
    /\ UNCHANGED <<poolVars, tpc, tdrv, ttmp, tres, sd_leased>>

\* lines 103-104: driver = self.available_drivers.get(), which waits for an
\* element; self._close_driver(driver)
ReuseShutdownGet ==
    /\ spc = "s_get"
    /\ available_drivers # <<>>
    /\ available_drivers' = QueueAfterGet(available_drivers)
    /\ \E quitOk \in BOOLEAN : quit' = CloseDriver(Head(available_drivers), quitOk)
    /\ spc' = "s_test"
    /\ UNCHANGED <<max_drivers, pool_module, active_drivers, shutdown_flag, lock,
                   created, leased, released, tpc, tdrv, ttmp, tres, sd_leased>>

\* line 106: self.active_drivers = 0
ReuseShutdownReset ==
    /\ spc = "reset"
    /\ active_drivers' = 0
    /\ spc' = "done"
    /\ UNCHANGED <<max_drivers, pool_module, shutdown_flag, lock, created, quit,
                   leased, released, available_drivers,
                   tpc, tdrv, ttmp, tres, sd_leased>>

ReuseGetStep(t) ==
    \/ ReuseGetLock(t)
    \/ ReuseGetCheckShutdown(t)
    \/ ReuseGetNowait(t)
    \/ ReuseGetCheckTitle(t)
    \/ ReuseGetCheckCap(t)
    \/ ReuseGetCreate(t)
    \/ ReuseGetIncRead(t)
    \/ ReuseGetIncWrite(t)

ReuseRelStep(t) ==
    \/ ReuseRelCheckShutdown(t)
    \/ ReuseRelLock(t)
    \/ ReuseRelCheckTitle(t)
    \/ ReuseRelDecRead(t)
    \/ ReuseRelDecWrite(t)

ReuseShutdownStep ==
    \/ ReuseShutdownSetFlag
    \/ ReuseShutdownTestEmpty
    \/ ReuseShutdownGet
    \/ ReuseShutdownReset

NextReuse ==
    /\ \/ \E t \in ReuseThreads : ReuseGetStep(t) \/ ReuseRelStep(t)
       \/ ReuseShutdownStep
    /\ UNCHANGED <<routeVars, extractVars, reqVars, otherVars, gateVars>>

InitPools ==
    /\ \E cap \in 1..MaxCap : PoolInit(cap) \/ ReusePoolInit(cap)
    /\ ThreadsInit
    /\ RouteInit("Windows")
    /\ ExtractIdle
    /\ ReqInit
    /\ OthersInit
    /\ GateInit(0)

NextPools ==
    \/ pool_module = "chromium_everytime" /\ NextPool
    \/ pool_module = "everytime" /\ NextReuse

\* threads calling get_driver and release_driver on a pool of either module;
\* the reusing pool also with shutdown() called at any moment
SpecPools == InitPools /\ [][NextPools]_vars

(***************************************************************************)
(* The extraction alone: _parse_html and _extract_time_of_subject applied  *)
(* to a rendered document.                                                 *)
(***************************************************************************)
\* the columns a document is made of: no subject, one, two, one whose style
\* cannot be read
ColumnKinds ==
    { <<>>,
      << Block(50, 100) >>,
      << Block(60, 540), Block(75, 630) >>,
      << BadBlock >> }

\* documents of up to MaxCols day columns
StructDocs == UNION { [1..n -> ColumnKinds] : n \in 0..MaxCols }

\* the pixels of one day at PART pixels to the hour
DayPixels == 24 * PART

BlockHeights == {1, 50, 60, 75, 90}

BlockTops == 0..(DayPixels - 1)

\* documents of one column with one subject block
SingleDocs == { << << Block(h, t) >> >> : h \in BlockHeights, t \in BlockTops }

ExtractDocs == StructDocs \cup SingleDocs

ParserModules == {"everytime_base", "everytime"}

\* html = page.content() (sync_playwright_everytime.py line 81),
\* html = driver.page_source (chromium_everytime.py line 212)
ExtractInit ==
    /\ x_pc = "doc"
    /\ x_doc \in ExtractDocs
    /\ x_out = NoOut
    /\ x_time = NoTime

\* sync_playwright_everytime.py line 89: return self._parse_html(html)
ParseHtmlRun ==
    /\ x_pc = "doc"
    /\ x_out' = ParseHtml(x_doc)
    /\ x_pc' = "parsed"
    /\ UNCHANGED <<x_doc, x_time>>

\* _extract_time_of_subject(subject) for the first subject of the first column,
\* by the parser base or by TimetableParser of everytime.py
ExtractTimeRun(module) ==
    /\ x_pc = "doc"
    /\ Len(x_doc) >= 1
    /\ Len(x_doc[1]) >= 1
    /\ LET b == x_doc[1][1]
       IN  x_time' =
             IF ~b.style_ok
             THEN [module |-> module, err |-> "ValueError", time |-> <<>>]
             ELSE [module |-> module, err |-> "none",
                   time |-> IF module = "everytime" THEN ExtractTimeEverytime(b)
                            ELSE ExtractTime(b)]
    /\ x_pc' = "timed"
    /\ UNCHANGED <<x_doc, x_out>>

InitExtract ==
    /\ PoolInit(POOL_MAX_DRIVERS)
    /\ ThreadsInit
    /\ RouteInit("Linux")
    /\ ReqInit
    /\ OthersInit
    /\ GateInit(0)
    /\ ExtractInit

NextExtract ==
    /\ \/ ParseHtmlRun
       \/ \E module \in ParserModules : ExtractTimeRun(module)
    /\ UNCHANGED <<poolVars, threadVars, routeVars, reqVars, otherVars, gateVars>>

\* the extraction applied to each document of ExtractDocs
SpecExtract == InitExtract /\ [][NextExtract]_vars

(***************************************************************************)
(* Properties.                                                             *)
(***************************************************************************)
\* the job of the followed request has returned or raised
JobOver == req.pc \in {"job_done", "respond", "delivered"}

\* the URL names the expected host: http(s)://everytime.kr, then a path
OnExpectedDomain(url) ==
    /\ Len(url) >= 2
    /\ url[1] \in HttpPrefixes
    /\ url[2] = "everytime.kr"
    /\ (Len(url) >= 3 => url[3] \in PathPieces)

\* C1 (SpecPool): with more threads than max_drivers calling get_driver and
\* release_driver in any interleaving, the drivers returned by get_driver and
\* not yet passed to release_driver never number more than max_drivers.
C1_CapInvariant == Cardinality(leased) <= max_drivers

\* C1: the pool is full and a further get_driver call has been refused
C1_Witness ==
    /\ Cardinality(leased) = max_drivers
    /\ NumThreads > max_drivers
    /\ \E t \in Threads : tdrv[t] = 0 /\ tpc[t] = "idle" /\ tres[t] = "HTTP503_capacity"

\* C3 (SpecPoolSd): 0 <= active_drivers <= max_drivers in every state, with
\* shutdown() interleaved with get_driver and release_driver.
C3_CounterInvariant == 0 <= active_drivers /\ active_drivers <= max_drivers

\* C2 (SpecReq): in ChromiumTimetableParser.parse_timetable no driver is passed
\* to release_driver twice, and whenever an attempt is over (the loop is back
\* at its top, or the job has returned or raised) the driver that get_driver
\* returned in it has been passed to release_driver: exactly once.
C2_NoLeak ==
    /\ hist.rel_calls <= 1
    /\ (req.pc = "c_loop" \/ JobOver) =>
          /\ leased = {}
          /\ (leased \cup released # {} => hist.rel_calls = 1)

\* C2: a job that failed with the extraction's ValueError after a retry
C2_Witness ==
    /\ req.pc = "job_done"
    /\ req.backend = "chromium"
    /\ req.result = "HTTP400"
    /\ created >= 2
    /\ hist.rel_calls = 1

\* C4 (SpecReq): a job in which every pass of the retry loop reached the
\* navigation and timed out there made exactly max_retries + 1 navigation
\* attempts and ended with HTTP 504, on both backends; and no job ever makes
\* more than max_retries + 1 navigation attempts.
C4_RetryBound ==
    /\ hist.navs <= DEFAULT_MAX_RETRIES + 1
    /\ (JobOver /\ hist.only_timeouts) =>
          /\ hist.navs = DEFAULT_MAX_RETRIES + 1
          /\ req.result = "HTTP504"

\* C4: a request through the route delivered 504 after timeouts only
C4_Witness ==
    /\ req.pc = "delivered"
    /\ req.entry = "route"
    /\ hist.only_timeouts
    /\ hist.navs = DEFAULT_MAX_RETRIES + 1
    /\ req.delivered = "HTTP504"

\* C5 (SpecReq): for a URL that does not start with http:// or https://, or
\* that is not on the expected domain, parse_timetable makes no get_driver
\* call, no browser launch, no navigation attempt and no retry.
C5_ValidationShortCircuit ==
    (req.pc # "idle" /\ (~StartsWithHttp(req.url) \/ ~OnExpectedDomain(req.url))) =>
        /\ hist.get_calls = 0
        /\ hist.launches = 0
        /\ hist.navs = 0
        /\ req.retries = 0

\* C7 (SpecReq): a page with day columns and no subject block is retried: a
\* job whose last attempt saw such a page has used all max_retries + 1
\* attempts; and no job returns an empty entry list.
C7_EmptyPageRetried ==
    /\ (JobOver /\ hist.last_cause = "empty") => hist.navs = DEFAULT_MAX_RETRIES + 1
    /\ (JobOver /\ req.result = "ok") => Len(req.data) > 0

\* C8 (SpecReq): a job whose get_driver call found the pool at capacity ends
\* with the backpressure failure, HTTP 503, and that is what the route hands on.
C8_ExhaustionIsBackpressure ==
    /\ (JobOver /\ hist.last_cause = "HTTP503_capacity") => req.result = "HTTP503"
    /\ (req.pc = "delivered" /\ hist.last_cause = "HTTP503_capacity") =>
          req.delivered = "HTTP503"

\* C10 (SpecReq): once the job's future is complete no driver of the request
\* is leased; once the request has left the semaphore (its slot released) the
\* same holds; and an outcome is delivered to the caller only after the slot
\* has been released: driver release, then slot release, then the outcome.
C10_ReleaseBeforeReturn ==
    /\ JobOver => (leased = {} /\ req.driver = 0)
    /\ (req.entry = "route" /\ created > 0 /\ ~req.slot) => leased = {}
    /\ req.delivered # "none" => (~req.slot /\ leased = {})
    /\ (req.entry = "route" /\ req.pc \in {"respond", "delivered"}) =>
          sem + o_inside + o_holding = MAX_CONCURRENT_JOBS

\* C10: a request through the route has delivered a failure after using drivers
C10_Witness ==
    /\ req.pc = "delivered"
    /\ req.entry = "route"
    /\ req.delivered = "HTTP503"
    /\ created = DEFAULT_MAX_RETRIES + 1

\* the followed request is inside async with processing_semaphore
InsideSemaphore ==
    /\ req.entry = "route"
    /\ req.pc \notin {"idle", "gate", "respond", "delivered"}

\* C11 (SpecReq): a request through get_timetable holds one slot while it is
\* inside async with and has released it exactly once when it has left,
\* whether the job returned, raised an HTTPException, raised another
\* exception, or was never submitted because parse_timetable_async raised;
\* the free slots are MAX_CONCURRENT_JOBS less the requests inside, so that
\* with every request finished all MAX_CONCURRENT_JOBS slots are free.
C11_NoSlotLeak ==
    /\ req.slot = InsideSemaphore
    /\ req.slot_rel = IF req.entry = "route" /\ req.pc \in {"respond", "delivered"}
                      THEN 1 ELSE 0
    /\ sem = MAX_CONCURRENT_JOBS - o_inside - o_holding - (IF req.slot THEN 1 ELSE 0)
    /\ (o_inside + o_holding = 0 /\ ~InsideSemaphore) => sem = MAX_CONCURRENT_JOBS

\* C11: parse_timetable_async raised; the request has left and every slot is free
C11_Witness ==
    /\ req.pc = "delivered"
    /\ req.entry = "route"
    /\ req.result = "RuntimeError"
    /\ req.delivered = "HTTP500"
    /\ req.slot_rel = 1
    /\ o_inside + o_holding = 0
    /\ sem = MAX_CONCURRENT_JOBS

\* C12 (SpecCancel): at every moment at most MAX_CONCURRENT_JOBS jobs are
\* submitted to the thread pool and not finished, also when handlers that
\* await their job are cancelled.
C12_InFlightBound == JobsInFlight <= MAX_CONCURRENT_JOBS

\* C13 (SpecPoolSd): when shutdown() has returned, every driver that was
\* leased when it was called and that its holder has not passed to
\* release_driver has been quit (by shutdown, no one else having had it).
C13_ShutdownQuitsLeased == spc = "done" => (sd_leased \cap leased) \subseteq quit

\* C14 (SpecPoolSd): once shutdown() has returned, a get_driver call that
\* reaches its _shutdown test raises RuntimeError without creating a driver
\* and without changing active_drivers, and a release_driver call closes the
\* driver at once and leaves active_drivers at 0.
C14_ClosedPoolFailsFast ==
    [][\A t \in Threads :
          /\ (spc = "done" /\ tpc[t] = "g_locked" /\ tpc'[t] # "g_locked") =>
                /\ tpc'[t] = "idle"
                /\ tres'[t] = "RuntimeError"
                /\ created' = created
                /\ active_drivers' = active_drivers
          /\ (spc = "done" /\ tdrv[t] \in leased /\ tdrv[t] \notin leased') =>
                /\ tdrv'[t] = 0
                /\ tdrv[t] \in released'
                /\ active_drivers' = 0]_vars

\* threads inside release_driver, past its _shutdown test
Releasing == {t \in Threads : tpc[t] \in {"r_wait", "r_close", "r_dec", "r_write"}}

\* the step in which thread t's release_driver call returns
ReleaseEnds(t) == tdrv[t] # 0 /\ tdrv'[t] = 0

\* no released driver is leased again, only released drivers are quit, and
\* the driver a get_driver call is about to return is new: never leased, never
\* released, and in no other thread's hands
FreshHandles ==
    /\ quit \subseteq released
    /\ leased \cap released = {}
    /\ \A t \in Threads :
          tpc[t] \in {"g_inc", "g_write"} =>
              /\ tdrv[t] \notin leased \cup released
              /\ \A u \in Threads \ {t} : tdrv[u] # tdrv[t]

\* C15 as stated (SpecPoolClosing): every release_driver call runs to its
\* end, whether driver.quit() succeeds or raises, and has decremented
\* active_drivers when it returns; no released driver is leased again and
\* every driver get_driver returns is new.
C15_AlwaysFresh ==
    /\ []FreshHandles
    /\ [][\A t \in Threads :
             ReleaseEnds(t) =>
                 /\ tdrv[t] \in released'
                 /\ active_drivers' = active_drivers - 1]_vars

\* C15 (SpecPoolClosing): every release_driver call runs to its end, whether
\* driver.quit() succeeds or raises; until shutdown() is called it decrements
\* active_drivers, which is then the number of drivers leased or being
\* released; a call that finds _shutdown set closes the driver and leaves
\* active_drivers as it is; no released driver is leased again and every
\* driver get_driver returns is new, before and after shutdown().
C15_FreshDecrementUnlessShutdown ==
    /\ []FreshHandles
    /\ [](~shutdown_flag =>
             active_drivers = Cardinality(leased) + Cardinality(Releasing))
    /\ [][\A t \in Threads :
             ReleaseEnds(t) =>
                 /\ tdrv[t] \in released'
                 /\ ~shutdown_flag => active_drivers' = active_drivers - 1
                 /\ tpc[t] = "idle" => UNCHANGED active_drivers]_vars

\* C15: shutdown() has returned, a driver that was leased when it was called
\* has since been released, its quit() raised, and the counter is still 0;
\* another driver had been released and counted out before
C15_Witness ==
    /\ spc = "done"
    /\ \E d \in sd_leased \cap released : d \notin quit
    /\ \A t \in Threads : tpc[t] = "idle"
    /\ Cardinality(released) >= 2
    /\ leased = {}
    /\ active_drivers = 0

\* the drivers waiting in available_drivers
Queued == {available_drivers[i] : i \in DOMAIN available_drivers}

\* the threads that have driver d in hand
Holders(d) == {t \in Threads : tdrv[t] = d}

\* C16 (SpecPools): in the always-fresh pool of chromium_everytime and in the
\* reusing pool of everytime.py alike, no driver is in the hands of two threads
\* at once, every leased driver has exactly one holder, a driver waiting in
\* available_drivers is leased to nobody and in nobody's hands, and no driver
\* is twice in the queue.
C16_HandleExclusive ==
    /\ \A d \in 1..created : Cardinality(Holders(d)) <= 1
    /\ \A d \in leased : Cardinality(Holders(d)) = 1
    /\ \A d \in Queued : d \notin leased /\ Holders(d) = {}
    /\ Cardinality(Queued) = Len(available_drivers)

\* the reusing pool has leased a driver for the second time while another
\* released driver waits in the queue
C16_Witness ==
    /\ pool_module = "everytime"
    /\ \E d \in leased : d \in released /\ Holders(d) # {}
    /\ available_drivers # <<>>
    /\ \A t \in Threads : tpc[t] = "idle"

\* the places of a job that is on its way to another attempt
RetryPlaces == {"c_backoff", "c_get", "c_nav", "p_backoff", "p_launch", "p_nav"}

\* C17 (SpecReq): after an attempt whose page loaded with subject blocks, one
\* of them with a style _extract_time_of_subject cannot read (ValueError), the
\* job makes no further attempt: it neither sleeps before a retry nor launches
\* or navigates again.
C17_ExtractionNotRetried ==
    hist.last_cause = "malformed" => req.pc \notin RetryPlaces

\* C18 (SpecReq): a request through get_timetable whose URL was rejected by the
\* parser's URL checks (missing URL or _validate_url) is answered with HTTP
\* 400, on the Chromium and on the Playwright backend.
C18_ValidationIs400 ==
    (req.entry = "route" /\ req.pc = "delivered" /\ hist.last_cause = "validation")
        => req.delivered = "HTTP400"

\* a vertical position in pixels as a time of day, PART pixels to the hour
ScaleHour(px) == px \div PART

ScaleMinute(px) == ((px % PART) * 60) \div PART

\* C19 (SpecExtract): _extract_time_of_subject turns a block's top and height
\* into times at PART = 60 pixels to the hour: the start is top at that scale,
\* the end is top + height at that scale, and a block at top 100 of height 50
\* gives start 02:00 and end 03:00.
C19_TimeComputation ==
    (x_pc = "timed" /\ x_time.err = "none") =>
        LET b == x_doc[1][1]
        IN  /\ x_time.time = << ScaleHour(b.top), ScaleMinute(b.top),
                                ScaleHour(b.top + b.height),
                                ScaleMinute(b.top + b.height) >>
            /\ (b = Block(50, 100) => x_time.time = <<2, 0, 3, 0>>)

\* the subject blocks of a document, column after column
RECURSIVE FlatBlocks(_)
FlatBlocks(days) ==
    IF Len(days) = 0 THEN <<>> ELSE Head(days) \o FlatBlocks(Tail(days))

\* C20 (SpecExtract): the list _parse_html returns has one entry for every
\* subject block of the document's day columns, in the order of the columns
\* and of the blocks in a column: no block is left out.
C20_OneEntryPerBlock ==
    (x_pc = "parsed" /\ x_out.err = "none") =>
        LET blocks == FlatBlocks(x_doc)
        IN  /\ Len(x_out.data) = Len(blocks)
            /\ \A k \in 1..Len(blocks) :
                  /\ x_out.data[k].start_time = SubjectData(blocks[k], 0).start_time
                  /\ x_out.data[k].end_time = SubjectData(blocks[k], 0).end_time

\* the places of a job between two attempts: asleep before the retry, at the
\* top of the loop, about to acquire or launch
BetweenAttempts == {"c_backoff", "c_loop", "c_get", "p_backoff", "p_loop", "p_launch"}

\* C21 (SpecReq): a request holds at most one driver (Chromium) or one live
\* browser (Playwright) at a time; between two attempts, from the backoff sleep
\* to the next get_driver or launch, it holds none: every driver it was given
\* has been passed to release_driver and so to _close_driver, and the browser
\* of the failed attempt is gone.
C21_SequentialAttempts ==
    /\ Cardinality(leased) <= 1
    /\ req.driver # 0 => leased \subseteq {req.driver}
    /\ req.pc \in BetweenAttempts =>
          /\ req.driver = 0
          /\ leased = {}
          /\ 1..created \subseteq released
          /\ ~req.browser

\* C21: the second attempt holds the second driver, the first having been released
C21_Witness ==
    /\ req.pc = "c_nav"
    /\ req.retries = 1
    /\ req.driver = 2
    /\ leased = {2}
    /\ released = {1}

\* the job has used every attempt: retries has passed max_retries
Exhausted == JobOver /\ req.retries = DEFAULT_MAX_RETRIES + 1

\* what an attempt's timeout is recorded as, and its other engine errors
TimeoutCauses == {"TimeoutException", "TimeoutError"}

EngineCauses == {"WebDriverException", "Error"}

\* the error of the last attempt: what navigation raised, or, when the launch
\* failed, the exception kept in last_error (sync_playwright_everytime.py line 93)
LastAttemptError ==
    IF hist.last_cause = "launch" THEN req.last_error ELSE hist.last_cause

\* C22 (SpecReq): a job that has used all its attempts fails by the error of
\* its last attempt alone, HTTP 504 for a timeout and HTTP 503 for another
\* engine error, whatever the earlier attempts failed with; and a finished job
\* has one outcome, the non-empty entry list or one failure, which the route
\* delivers as it is.
C22_LastErrorDecides ==
    /\ (Exhausted /\ LastAttemptError \in TimeoutCauses) => req.result = "HTTP504"
    /\ (Exhausted /\ LastAttemptError \in EngineCauses) => req.result = "HTTP503"
    /\ JobOver =>
          \/ req.result = "ok" /\ Len(req.data) > 0
          \/ req.result \notin {"ok", "none", "None"} /\ req.data = <<>>
    /\ req.pc = "delivered" =>
          /\ req.delivered = IF req.entry = "route" THEN RouteStatus(req.result)
                             ELSE req.result
          /\ req.delivered # "none"
    /\ req.pc # "delivered" => req.delivered = "none"

\* C22: the last of three attempts timed out after an earlier attempt had
\* failed otherwise, and the route delivered 504
C22_Witness ==
    /\ req.pc = "delivered"
    /\ req.retries = DEFAULT_MAX_RETRIES + 1
    /\ hist.last_cause \in TimeoutCauses
    /\ ~hist.only_timeouts
    /\ req.delivered = "HTTP504"

\* the places of a running Chromium job
ChromiumPlaces ==
    {"c_loop", "c_get", "c_nav", "c_success", "c_except", "c_backoff", "c_finally"}

\* C23 (FairSpecReq): whatever each attempt fails with, a job of
\* ChromiumTimetableParser.parse_timetable calls get_driver and navigates at
\* most max_retries + 1 times, its retries counter never passes max_retries + 1,
\* and the job always ends.
C23_MixedAttemptBound ==
    /\ [](/\ hist.get_calls <= DEFAULT_MAX_RETRIES + 1
          /\ hist.navs <= DEFAULT_MAX_RETRIES + 1
          /\ req.retries <= DEFAULT_MAX_RETRIES + 1)
    /\ (req.pc \in ChromiumPlaces) ~> JobOver

\* C23: a Chromium job over after three attempts, the last one ended by an
\* AttributeError in the clause of the unexpected errors
C23_Witness ==
    /\ JobOver
    /\ req.backend = "chromium"
    /\ hist.get_calls = DEFAULT_MAX_RETRIES + 1
    /\ hist.navs = DEFAULT_MAX_RETRIES + 1
    /\ hist.last_cause = "AttributeError"
    /\ req.result = "HTTP500"

\* the statements of get_driver before the write of active_drivers += 1
GetPlaces == {"g_locked", "g_cap", "g_create", "g_inc"}

\* C24 (SpecPoolSd): no statement of get_driver but the write of
\* active_drivers += 1 changes active_drivers; a get_driver call that raises
\* (pool shut down, pool at capacity, driver not created) leaves the thread
\* without a driver and the leased drivers as they were; and the write of a
\* successful call raises active_drivers by exactly one.
C24_FailedAcquireNoChange ==
    [][\A t \in Threads :
          /\ (tpc[t] \in GetPlaces /\ tpc'[t] # tpc[t]) =>
                active_drivers' = active_drivers
          /\ (tpc[t] \in GetPlaces /\ tpc'[t] = "idle") =>
                /\ tres'[t] # "ok"
                /\ tdrv'[t] = 0
                /\ leased' = leased
          /\ (tpc[t] = "g_write" /\ tpc'[t] = "idle") =>
                /\ tres'[t] = "ok"
                /\ tdrv'[t] \in leased'
                /\ active_drivers' = active_drivers + 1]_vars

\* no thread is inside a get_driver or release_driver call
PoolQuiet == \A t \in Threads : tpc[t] = "idle"

\* C25 (SpecReq): with shutdown() not called and no get_driver or
\* release_driver call under way, active_drivers is the number of drivers
\* leased, those of the followed request and those of the other requests; it
\* is 0 when the followed request is over and no other request holds a driver.
C25_CounterMatchesLeases ==
    (~shutdown_flag /\ PoolQuiet) =>
        /\ active_drivers = Cardinality(leased) + o_holding
        /\ (JobOver /\ o_holding = 0) => active_drivers = 0

\* C25: the followed request has failed after three drivers, other requests
\* have come and gone, and the counter is back at 0
C25_Witness ==
    /\ JobOver
    /\ req.result = "HTTP504"
    /\ created = DEFAULT_MAX_RETRIES + 1
    /\ released = 1..created
    /\ o_holding = 0
    /\ sem < MAX_CONCURRENT_JOBS
    /\ active_drivers = 0

\* the browsers started by _create_driver that no caller holds, that were
\* never passed to release_driver and on which quit() was never called
Orphaned ==
    {d \in 1..created :
        /\ d \notin leased \cup released \cup quit
        /\ \A t \in Threads : tdrv[t] # d}

\* C26 (SpecPool): every browser started inside _create_driver is in a
\* caller's hands, has been passed to release_driver, or has been quit: also
\* when a configuration step after webdriver.Chrome raised.
C26_NoOrphanedBrowser == Orphaned = {}

\* for every subject block of a document, column after column, the position
\* of its day column (the first column is 1)
RECURSIVE FlatColumns(_, _)
FlatColumns(days, i) ==
    IF i > Len(days) THEN <<>>
    ELSE [k \in 1..Len(days[i]) |-> i] \o FlatColumns(days, i + 1)

\* C27 (SpecExtract): in the list _parse_html returns, the day of every entry is
\* the weekday at the position of the day column that holds the block: Monday
\* for the first column, Tuesday for the second, and so on, also when columns
\* before it hold no subject.
C27_DayFollowsColumn ==
    (x_pc = "parsed" /\ x_out.err = "none") =>
        LET cols == FlatColumns(x_doc, 1)
        IN  \A k \in 1..Len(x_out.data) :
               /\ k <= Len(cols)
               /\ cols[k] <= Len(DayEnum)
               /\ x_out.data[k].day = DayEnum[cols[k]]

\* C28 (SpecExtract): for a block with top >= 0, height >= 1 and
\* top + height within one day (24 * PART pixels), _extract_time_of_subject of
\* the parser base returns hours in 0..23 and minutes in 0..59, for the start
\* and for the end, and the end is not earlier than the start.
C28_TimeRange ==
    (x_pc = "timed" /\ x_time.err = "none" /\ x_time.module = "everytime_base") =>
        LET b == x_doc[1][1]
            tm == x_time.time
        IN  (b.top >= 0 /\ b.height >= 1 /\ b.top + b.height <= DayPixels) =>
               /\ tm[1] \in 0..23
               /\ tm[2] \in 0..59
               /\ tm[3] \in 0..23
               /\ tm[4] \in 0..59
               /\ \/ tm[3] > tm[1]
                  \/ tm[3] = tm[1] /\ tm[4] >= tm[2]

\* C28: a block that ends with the day: 23:00 to 23:59
C28_Witness ==
    /\ x_pc = "timed"
    /\ x_time.module = "everytime_base"
    /\ x_doc[1][1] = Block(60, DayPixels - 60)
    /\ x_time.time = <<23, 0, 23, 59>>

\* C30 (SpecPools): in the reusing pool, with shutdown() not called and no
\* get_driver or release_driver call under way, active_drivers is the number
\* of live drivers: those leased and those idle in available_drivers.
C30_NoCapacityLeak ==
    (pool_module = "everytime" /\ ~shutdown_flag /\ PoolQuiet) =>
        active_drivers = Cardinality(leased) + Len(available_drivers)

\* the server on Linux, where every job runs SyncPlaywrightEverytimeParser
InitPlaywright ==
    /\ PoolInit(POOL_MAX_DRIVERS)
    /\ ThreadsInit
    /\ RouteInit("Linux")
    /\ ExtractIdle
    /\ ReqInit
    /\ OthersInit
    /\ GateInit(NumGateReq)

NextPlaywright ==
    \/ GateAcquire
    \/ GateValidationFails
    \/ \E k \in Retries : GateLaunch(k)
    \/ \E k \in Retries : GateAttemptEnds(k)
    \/ GateExit
    \/ \E k \in Retries : GateCancelWaiting(k)
    \/ \E k \in Retries : GateCancelHolding(k)
    \/ OrphanValidationFails
    \/ \E k \in Retries : OrphanLaunch(k)
    \/ \E k \in Retries : OrphanAttemptEnds(k)

\* NumGateReq requests on the Playwright path, any of which may be cancelled
\* while it awaits its job
SpecPlaywright == InitPlaywright /\ [][NextPlaywright]_vars

\* the browsers alive on the Playwright path: one for every job inside
\* 'with sync_playwright()' after its launch
BrowsersAlive ==
    IF platform = "Linux"
    THEN SumUpTo(g_hold, DEFAULT_MAX_RETRIES) + SumUpTo(g_ohold, DEFAULT_MAX_RETRIES)
    ELSE 0

\* C29 (SpecPlaywright): on the Playwright path the browsers alive at the same
\* time never number more than the worker threads of _thread_executor, also
\* when jobs outlive their cancelled handlers and further requests are
\* admitted; and when no job is left unfinished no browser is alive.
C29_PlaywrightBrowserBound ==
    /\ BrowsersAlive <= PLAYWRIGHT_WORKERS
    /\ JobsInFlight = 0 => BrowsersAlive = 0

\* C29: every worker runs a job with a live browser and one more job waits
\* for a worker
C29_Witness ==
    /\ platform = "Linux"
    /\ BrowsersAlive = PLAYWRIGHT_WORKERS
    /\ JobsInFlight > PLAYWRIGHT_WORKERS

\* C6 (FairSpecGate): with more requests than MAX_CONCURRENT_JOBS calling
\* get_timetable at once, at most MAX_CONCURRENT_JOBS are inside the semaphore
\* at any time, every request not inside and not finished is waiting, and
\* every request eventually leaves get_timetable.
C6_AdmissionBackpressure ==
    /\ [](/\ GateInside <= MAX_CONCURRENT_JOBS
          /\ sem = MAX_CONCURRENT_JOBS - GateInside
          /\ g_wait = NumGateReq - GateInside - g_done)
    /\ <>(g_done = NumGateReq)

\* C6: the semaphore is full and a request waits
C6_Witness ==
    /\ GateInside = MAX_CONCURRENT_JOBS
    /\ g_wait >= 1
    /\ g_done = 0

\* C9 (SpecGate): with every request entering through the semaphore, no
\* admitted request finds the Chromium driver pool at capacity.
C9_GateWithinPool == ~g_full

====
